---- MODULE Spec2Model ----
(***************************************************************************)
(* A model of the Pipefish virtual machine (source/vm/vm.go): the register *)
(* file Mem, the call stack, the dispatch loop Run with one action per     *)
(* opcode, closures (Mkfn / Dofn) and the Go slices behind tuples and      *)
(* captures.                                                               *)
(*                                                                         *)
(* Go slices are modelled as they are in Go: a slice header (ptr, len)     *)
(* into a heap of backing arrays, the capacity being the length of the     *)
(* backing array.  Copying a Value copies the header, never the array.     *)
(*                                                                         *)
(* Go indexes from 0.  Mem and Code are functions on 0..n-1; the operand   *)
(* list Args of an instruction is a TLA+ sequence, and A(a, i) is Go's     *)
(* args[i].                                                                *)
(***************************************************************************)
EXTENDS Integers, Sequences, FiniteSets, TLC

VARIABLES
    Mem,              \* Mem[v]: the register file of VM v (Vm.Mem)
    callstack,        \* callstack[v]: the return addresses of VM v (Vm.callstack)
    Code,             \* Code[v]: the program of VM v (Vm.Code); fixed after Init
    LambdaFactories,  \* Vm.LambdaFactories of the main VM
    heap,             \* the backing arrays of every []values.Value
    runs,             \* the activations of Run on the Go stack, innermost last
    StructResolve,    \* Vm.StructResolve: the MapResolver of the struct types
    Tokens,           \* Vm.Tokens of the main VM
    vmToAdd,          \* the VM handed to Vm.add (its Code, Tokens, LambdaFactories)
    schemes,          \* the typeschemes the compiler is comparing
    FunctionTable,    \* Parser.FunctionTable: the overloads of a function, in order
    FunctionTreeMap,  \* Parser.FunctionTreeMap: the function's dispatch tree
    prev              \* history: the instruction executed last and the state it ran in

vars ==
    <<Mem, callstack, Code, LambdaFactories, heap, runs, StructResolve, Tokens,
      vmToAdd, schemes, FunctionTable, FunctionTreeMap, prev>>

----------------------------------------------------------------------------
(* Value tags, in the order of the type-name table of BlankVm.             *)

UNDEFINED_VALUE == 0
INT_ARRAY == 1
THUNK == 2
CREATED_LOCAL_CONSTANT == 3
TUPLE == 4
ERROR == 5
UNSAT == 6
REF == 7
NULL == 8
INT == 9
BOOL == 10
STRING_ == 11
FLOAT == 12
TYPE == 13
FUNC == 14
PAIR == 15
LIST == 16
MAP == 17
SET == 18
LABEL == 19

(* The payload of a value that has none (Go's nil interface).              *)
Nil == [nil |-> TRUE]

Val(t, v) == [T |-> t, V |-> v]

(* The zero Value of Go: what make() fills a fresh array with.             *)
ZeroValue == Val(UNDEFINED_VALUE, Nil)

FALSE_ == Val(BOOL, FALSE)
TRUE_ == Val(BOOL, TRUE)
U_OBJ == Val(UNSAT, Nil)
ONE == Val(INT, 1)

VmConstants == <<FALSE_, TRUE_, U_OBJ, ONE>>

----------------------------------------------------------------------------
(* Go slices of values.Value.                                              *)

NilSlice == [ptr |-> 0, len |-> 0]

Zeros(n) == [i \in 1..n |-> ZeroValue]

Cap(h, s) == IF s.ptr = 0 THEN 0 ELSE Len(h[s.ptr])

(* The elements a slice header shows.                                      *)
Elems(h, s) == IF s.len = 0 THEN <<>> ELSE SubSeq(h[s.ptr], 1, s.len)

(* A fresh backing array of capacity c holding xs: make and the composite  *)
(* literal.  The result is the new heap and the slice header.              *)
MakeSlice(h, xs, c) ==
    [heap |-> Append(h, xs \o Zeros(c - Len(xs))),
     s    |-> [ptr |-> Len(h) + 1, len |-> Len(xs)]]

(* Go's append(s, xs...).  With room in the backing array the elements are *)
(* written in place, past the length of s; otherwise a new array is        *)
(* allocated, of a capacity the runtime chooses: the length needed and c   *)
(* more.                                                                   *)
AppendSlice(h, s, xs, c) ==
    IF Len(xs) = 0 THEN [heap |-> h, s |-> s]
    ELSE IF s.len + Len(xs) <= Cap(h, s)
    THEN [heap |-> [h EXCEPT ![s.ptr] =
                      [i \in 1..Len(@) |->
                         IF i > s.len /\ i <= s.len + Len(xs)
                         THEN xs[i - s.len] ELSE @[i]]],
          s    |-> [ptr |-> s.ptr, len |-> s.len + Len(xs)]]
    ELSE MakeSlice(h, Elems(h, s) \o xs, s.len + Len(xs) + c)

(* How far past the needed size the runtime may round a grown array.       *)
GrowSlack == 1

Slack == 0..GrowSlack

(* Payloads that are a []values.Value, so that .V.([]values.Value) holds.  *)
HasSlicePayload(v) == v.T \in {TUPLE, PAIR}

----------------------------------------------------------------------------
(* The dispatch loop.                                                      *)

A(a, i) == a[i + 1]

Op(oc, a) == [Opcode |-> oc, Args |-> a]

top == runs[Len(runs)]
vm == top.vm
loc == top.loc
args == Code[vm][loc].Args

(* An activation of Run(l) on VM v; f is the lambda it runs for a Dofn     *)
(* (the local lhs of the Dofn waiting for it).                             *)
Run(v, l, f) == [vm |-> v, loc |-> l, st |-> "run", lhs |-> f]

(* The loop fetches code[loc] while the innermost activation is running.   *)
(* (With SHOW_RUN the loop first prints DescribeCode(loc), which changes   *)
(* no state; the programs here keep every offset below 10.)                *)
Fetch(oc) ==
    /\ Len(runs) > 0
    /\ top.st = "run"
    /\ loc \in DOMAIN Code[vm]
    /\ Code[vm][loc].Opcode = oc

Executed(oc) ==
    prev' = [Opcode |-> oc, vm |-> vm, loc |-> loc, Args |-> args, Mem |-> Mem,
             callstack |-> callstack, heap |-> heap, depth |-> Len(runs)]

GoTo(l) == runs' = [runs EXCEPT ![Len(runs)].loc = l]

(* loc++ at the foot of the loop.                                          *)
FallThrough == GoTo(loc + 1)

(* break loop: Run returns.                                                *)
BreakLoop == runs' = [runs EXCEPT ![Len(runs)].st = "ret"]

(* A Go run-time panic (failed type assertion, index out of range).        *)
Panic == runs' = [runs EXCEPT ![Len(runs)].st = "panic"]

Push(l) == callstack' = [callstack EXCEPT ![vm] = Append(@, l)]

Store(r, x) == Mem' = [Mem EXCEPT ![vm][r] = x]

Fixed ==
    UNCHANGED <<Code, LambdaFactories, StructResolve, Tokens, vmToAdd, schemes,
                FunctionTable, FunctionTreeMap>>

----------------------------------------------------------------------------
(* Halt, Jmp, Jsr, Ret.                                                    *)

Halt ==
    /\ Fetch("Halt")
    /\ BreakLoop
    /\ Executed("Halt")
    /\ UNCHANGED <<Mem, callstack, heap>> /\ Fixed

Jmp ==
    /\ Fetch("Jmp")
    /\ GoTo(A(args, 0))
    /\ Executed("Jmp")
    /\ UNCHANGED <<Mem, callstack, heap>> /\ Fixed

Jsr ==
    /\ Fetch("Jsr")
    /\ Push(loc)
    /\ GoTo(A(args, 0))
    /\ Executed("Jsr")
    /\ UNCHANGED <<Mem, heap>> /\ Fixed

(* A Ret that also leaves the loop with one entry left on the stack.       *)
RetBreaksOffByOne(cs) == Len(cs) <= 1

(* Ret leaves the loop on an empty call stack.                             *)
RetBreaks(cs) == Len(cs) = 0

(* A Ret that resumes at the calling instruction itself.                   *)
RetLocNoIncrement(cs) == cs[Len(cs)]

(* Ret sets loc to the popped entry and then falls to loc++.               *)
RetLoc(cs) == cs[Len(cs)] + 1

RetStack(cs) == SubSeq(cs, 1, Len(cs) - 1)

Ret ==
    /\ Fetch("Ret")
    /\ IF RetBreaks(callstack[vm])
       THEN BreakLoop /\ UNCHANGED callstack
       ELSE /\ GoTo(RetLoc(callstack[vm]))
            /\ callstack' = [callstack EXCEPT ![vm] = RetStack(@)]
    /\ Executed("Ret")
    /\ UNCHANGED <<Mem, heap>> /\ Fixed

----------------------------------------------------------------------------
(* Pure register ops: Asgm, Addi, Thnk.                                    *)

Asgm ==
    /\ Fetch("Asgm")
    /\ Store(A(args, 0), Mem[vm][A(args, 1)])
    /\ FallThrough
    /\ Executed("Asgm")
    /\ UNCHANGED <<callstack, heap>> /\ Fixed

(* .V.(int) on both operands, then the sum.                                *)
Addi ==
    /\ Fetch("Addi")
    /\ IF Mem[vm][A(args, 1)].T = INT /\ Mem[vm][A(args, 2)].T = INT
       THEN /\ Store(A(args, 0), Val(INT, Mem[vm][A(args, 1)].V + Mem[vm][A(args, 2)].V))
            /\ FallThrough
       ELSE Panic /\ UNCHANGED Mem
    /\ Executed("Addi")
    /\ UNCHANGED <<callstack, heap>> /\ Fixed

Thnk ==
    /\ Fetch("Thnk")
    /\ Store(A(args, 0), Val(THUNK, A(args, 1)))
    /\ FallThrough
    /\ Executed("Thnk")
    /\ UNCHANGED <<callstack, heap>> /\ Fixed

(* Untk calls the thunk's code when the register holds a THUNK.            *)
Untk ==
    /\ Fetch("Untk")
    /\ IF Mem[vm][A(args, 0)].T = THUNK
       THEN Push(loc) /\ GoTo(Mem[vm][A(args, 0)].V)
       ELSE FallThrough /\ UNCHANGED callstack
    /\ Executed("Untk")
    /\ UNCHANGED <<Mem, heap>> /\ Fixed

----------------------------------------------------------------------------
(* Conditionals.  Qsng, QsnQ, Qtru and Qtyp end in `continue`: the loc     *)
(* they set is the next instruction.  QlnT has no `continue`, so the       *)
(* loop's loc++ is applied to the loc it sets.                             *)

(* Qsng with the bound of QsnQ.                                            *)
QsngCondFromNull(v) == v.T >= NULL

QsngCond(v) == v.T >= INT

QsnQCond(v) == v.T >= NULL

QtypCond(v, t) == v.T = t

(* The next loc of a conditional that ends in `continue`.                  *)
Branch(c, l, target) == IF c THEN l + 1 ELSE target

Qsng ==
    /\ Fetch("Qsng")
    /\ GoTo(Branch(QsngCond(Mem[vm][A(args, 0)]), loc, A(args, 1)))
    /\ Executed("Qsng")
    /\ UNCHANGED <<Mem, callstack, heap>> /\ Fixed

QsnQ ==
    /\ Fetch("QsnQ")
    /\ GoTo(Branch(QsnQCond(Mem[vm][A(args, 0)]), loc, A(args, 1)))
    /\ Executed("QsnQ")
    /\ UNCHANGED <<Mem, callstack, heap>> /\ Fixed

(* .V.(bool) panics unless the payload is a bool.                          *)
Qtru ==
    /\ Fetch("Qtru")
    /\ IF Mem[vm][A(args, 0)].T = BOOL
       THEN GoTo(Branch(Mem[vm][A(args, 0)].V, loc, A(args, 1)))
       ELSE Panic
    /\ Executed("Qtru")
    /\ UNCHANGED <<Mem, callstack, heap>> /\ Fixed

Qtyp ==
    /\ Fetch("Qtyp")
    /\ GoTo(Branch(QtypCond(Mem[vm][A(args, 0)], A(args, 1)), loc, A(args, 2)))
    /\ Executed("Qtyp")
    /\ UNCHANGED <<Mem, callstack, heap>> /\ Fixed

(* The next loc of QlnT: the branch sets loc, then the loop adds one.      *)
QlnTNext(c, l, target) == (IF c THEN l + 1 ELSE target) + 1

QlnT ==
    /\ Fetch("QlnT")
    /\ IF HasSlicePayload(Mem[vm][A(args, 0)])
       THEN GoTo(QlnTNext(Mem[vm][A(args, 0)].V.len = A(args, 1), loc, A(args, 2)))
       ELSE Panic
    /\ Executed("QlnT")
    /\ UNCHANGED <<Mem, callstack, heap>> /\ Fixed

----------------------------------------------------------------------------
(* Call and CalT.                                                          *)

(* The loop of Call: for i := args[1]; i < args[2]; i++, one register at   *)
(* a time, each read seeing the writes before it.  ok is FALSE when an     *)
(* index is out of range (a panic, the writes so far staying).             *)
RECURSIVE CallLoop(_, _, _)
CallLoop(mem, a, i) ==
    IF i >= A(a, 2) THEN [mem |-> mem, ok |-> TRUE]
    ELSE IF 3 + i - A(a, 1) >= Len(a) \/ i \notin DOMAIN mem
         THEN [mem |-> mem, ok |-> FALSE]
         ELSE CallLoop([mem EXCEPT ![i] = mem[A(a, 3 + i - A(a, 1))]], a, i + 1)

Call ==
    /\ Fetch("Call")
    /\ LET r == CallLoop(Mem[vm], args, A(args, 1))
       IN /\ Mem' = [Mem EXCEPT ![vm] = r.mem]
          /\ IF r.ok
             THEN Push(loc) /\ GoTo(A(args, 0))
             ELSE Panic /\ UNCHANGED callstack
    /\ Executed("Call")
    /\ UNCHANGED heap /\ Fixed

(* The capacity CalT gives the tuple it allocates.                         *)
TupleCap == 10

(* The loop of CalT: for j := 3; j < len(args); j++.  tplpt stays 0 and    *)
(* tupleTime is never reset.  tl is tupleList, read before the loop.       *)
RECURSIVE CalTLoop(_, _, _, _, _, _)
CalTLoop(mem, h, a, tl, j, tupleTime) ==
    IF j >= Len(a) THEN [mem |-> mem, heap |-> h, ok |-> TRUE]
    ELSE IF Len(tl) = 0 THEN [mem |-> mem, heap |-> h, ok |-> FALSE]
    ELSE
      LET hit  == j - 3 = tl[1]
          r    == A(a, 1) + tl[1]
          new  == MakeSlice(h, <<>>, TupleCap)
          mem1 == IF hit THEN [mem EXCEPT ![r] = Val(TUPLE, new.s)] ELSE mem
          h1   == IF hit THEN new.heap ELSE h
          tt   == tupleTime \/ hit
          app  == AppendSlice(h1, mem1[r].V, <<mem1[A(a, j)]>>, 0)
      IN IF tt
         THEN CalTLoop([mem1 EXCEPT ![r].V = app.s], app.heap, a, tl, j + 1, tt)
         ELSE CalTLoop([mem1 EXCEPT ![j + A(a, 1) - 3] = mem1[A(a, j)]], h1,
                       a, tl, j + 1, tt)

CalT ==
    /\ Fetch("CalT")
    /\ IF Mem[vm][A(args, 2)].T = INT_ARRAY
       THEN LET r == CalTLoop(Mem[vm], heap, args, Mem[vm][A(args, 2)].V, 3, FALSE)
            IN /\ Mem' = [Mem EXCEPT ![vm] = r.mem]
               /\ heap' = r.heap
               /\ IF r.ok
                  THEN Push(loc) /\ GoTo(A(args, 0))
                  ELSE Panic /\ UNCHANGED callstack
       ELSE Panic /\ UNCHANGED <<Mem, heap, callstack>>
    /\ Executed("CalT")
    /\ Fixed

----------------------------------------------------------------------------
(* Tuple constructors.  Each XxxxVal is what the case computes: the new    *)
(* heap, the slice of the tuple written, and ok = FALSE for a failed type  *)
(* assertion.  c is the spare capacity the runtime gives an array that     *)
(* append has to allocate.                                                 *)

Failed(h) == [heap |-> h, s |-> NilSlice, ok |-> FALSE]

Done(r) == [heap |-> r.heap, s |-> r.s, ok |-> TRUE]

Cc11Val(mem, h, a) == Done(MakeSlice(h, <<mem[A(a, 1)], mem[A(a, 2)]>>, 2))

(* A Cc1T that puts the single value after the tuple's elements.           *)
Cc1TValSwapped(mem, h, a, c) ==
    IF HasSlicePayload(mem[A(a, 2)])
    THEN Done(AppendSlice(h, mem[A(a, 2)].V, <<mem[A(a, 1)]>>, c))
    ELSE Failed(h)

Cc1TVal(mem, h, a, c) ==
    IF HasSlicePayload(mem[A(a, 2)])
    THEN LET lit == MakeSlice(h, <<mem[A(a, 1)]>>, 1)
         IN Done(AppendSlice(lit.heap, lit.s, Elems(h, mem[A(a, 2)].V), c))
    ELSE Failed(h)

CcT1Val(mem, h, a, c) ==
    IF HasSlicePayload(mem[A(a, 1)])
    THEN Done(AppendSlice(h, mem[A(a, 1)].V, <<mem[A(a, 2)]>>, c))
    ELSE Failed(h)

(* The case of CcTT is the text of the case of CcT1: mem[args[2]] is       *)
(* appended as one value.                                                  *)
CcTTVal(mem, h, a, c) ==
    IF HasSlicePayload(mem[A(a, 1)])
    THEN Done(AppendSlice(h, mem[A(a, 1)].V, <<mem[A(a, 2)]>>, c))
    ELSE Failed(h)

(* A Ccxx whose tuple-tuple branch concatenates the elements.              *)
CcxxValFlattening(mem, h, a, c) ==
    IF mem[A(a, 1)].T = TUPLE
    THEN IF mem[A(a, 2)].T = TUPLE
         THEN Done(AppendSlice(h, mem[A(a, 1)].V, Elems(h, mem[A(a, 2)].V), c))
         ELSE Done(AppendSlice(h, mem[A(a, 1)].V, <<mem[A(a, 2)]>>, c))
    ELSE IF mem[A(a, 2)].T = TUPLE
         THEN LET lit == MakeSlice(h, <<mem[A(a, 1)]>>, 1)
              IN Done(AppendSlice(lit.heap, lit.s, Elems(h, mem[A(a, 2)].V), c))
         ELSE Done(MakeSlice(h, <<mem[A(a, 1)], mem[A(a, 2)]>>, 2))

CcxxVal(mem, h, a, c) ==
    IF mem[A(a, 1)].T = TUPLE
    THEN IF mem[A(a, 2)].T = TUPLE
         THEN Done(AppendSlice(h, mem[A(a, 1)].V, <<mem[A(a, 2)]>>, c))
         ELSE Done(AppendSlice(h, mem[A(a, 1)].V, <<mem[A(a, 2)]>>, c))
    ELSE IF mem[A(a, 2)].T = TUPLE
         THEN LET lit == MakeSlice(h, <<mem[A(a, 1)]>>, 1)
              IN Done(AppendSlice(lit.heap, lit.s, Elems(h, mem[A(a, 2)].V), c))
         ELSE Done(MakeSlice(h, <<mem[A(a, 1)], mem[A(a, 2)]>>, 2))

Cv1TVal(mem, h, a) == Done(MakeSlice(h, <<mem[A(a, 1)]>>, 1))

CvTTVal(mem, h, a) ==
    Done(MakeSlice(h, [i \in 1..(Len(a) - 1) |-> mem[A(a, i)]], Len(a) - 1))

(* mem[args[0]] = Value{TUPLE, ...}, then loc++.                           *)
WriteTuple(r) ==
    /\ heap' = r.heap
    /\ IF r.ok
       THEN Store(A(args, 0), Val(TUPLE, r.s)) /\ FallThrough
       ELSE Panic /\ UNCHANGED Mem

Cc11 ==
    /\ Fetch("Cc11")
    /\ WriteTuple(Cc11Val(Mem[vm], heap, args))
    /\ Executed("Cc11")
    /\ UNCHANGED callstack /\ Fixed

Cc1T ==
    /\ Fetch("Cc1T")
    /\ \E c \in Slack :
          WriteTuple(Cc1TVal(Mem[vm], heap, args, c))
    /\ Executed("Cc1T")
    /\ UNCHANGED callstack /\ Fixed

CcT1 ==
    /\ Fetch("CcT1")
    /\ \E c \in Slack :
          WriteTuple(CcT1Val(Mem[vm], heap, args, c))
    /\ Executed("CcT1")
    /\ UNCHANGED callstack /\ Fixed

CcTT ==
    /\ Fetch("CcTT")
    /\ \E c \in Slack :
          WriteTuple(CcTTVal(Mem[vm], heap, args, c))
    /\ Executed("CcTT")
    /\ UNCHANGED callstack /\ Fixed

Ccxx ==
    /\ Fetch("Ccxx")
    /\ \E c \in Slack :
          WriteTuple(CcxxVal(Mem[vm], heap, args, c))
    /\ Executed("Ccxx")
    /\ UNCHANGED callstack /\ Fixed

Cv1T ==
    /\ Fetch("Cv1T")
    /\ WriteTuple(Cv1TVal(Mem[vm], heap, args))
    /\ Executed("Cv1T")
    /\ UNCHANGED callstack /\ Fixed

CvTT ==
    /\ Fetch("CvTT")
    /\ WriteTuple(CvTTVal(Mem[vm], heap, args))
    /\ Executed("CvTT")
    /\ UNCHANGED callstack /\ Fixed

----------------------------------------------------------------------------
(* Closures: Mkfn and Dofn.                                                *)

(* A Lambda with no captures: the Model of a factory.                      *)
Lambda(mc, extTop, prmTop, dest, locToCall) ==
    [Mc |-> mc, ExtTop |-> extTop, PrmTop |-> prmTop, Dest |-> dest,
     LocToCall |-> locToCall, Captures |-> NilSlice]

NoLambda == Lambda("main", 0, 0, 0, 0)

(* The captures Mkfn reads: mem[v] for each v of ExtMem, in order.         *)
MkfnCaptures(mem, extMem) == [i \in 1..Len(extMem) |-> mem[extMem[i]]]

Mkfn ==
    /\ Fetch("Mkfn")
    /\ IF A(args, 1) \in DOMAIN LambdaFactories
       THEN LET lf  == LambdaFactories[A(args, 1)]
                new == MakeSlice(heap, MkfnCaptures(Mem[vm], lf.ExtMem), Len(lf.ExtMem))
            IN /\ heap' = new.heap
               /\ Store(A(args, 0), Val(FUNC, [lf.Model EXCEPT !.Captures = new.s]))
               /\ FallThrough
       ELSE Panic /\ UNCHANGED <<Mem, heap>>
    /\ Executed("Mkfn")
    /\ UNCHANGED callstack /\ Fixed

(* The loop of Dofn that writes the parameters into lhs.Mc.Mem.  M is the  *)
(* register files of all VMs, v the VM executing the Dofn.                 *)
RECURSIVE DofnLoop(_, _, _, _, _)
DofnLoop(M, v, a, lhs, i) ==
    IF i >= lhs.PrmTop - lhs.ExtTop THEN [Mem |-> M, ok |-> TRUE]
    ELSE IF 2 + i >= Len(a) \/ lhs.ExtTop + i \notin DOMAIN M[lhs.Mc]
         THEN [Mem |-> M, ok |-> FALSE]
         ELSE DofnLoop([M EXCEPT ![lhs.Mc][lhs.ExtTop + i] = M[v][A(a, 2 + i)]],
                       v, a, lhs, i + 1)

Min(x, y) == IF x <= y THEN x ELSE y

(* copy(lhs.Captures, vm.Mem): Go's copy(dst, src) writes the first        *)
(* min(len(dst), len(src)) elements of src into dst.                       *)
DofnCopy(h, captures, mem) ==
    IF captures.ptr = 0 THEN h
    ELSE [h EXCEPT ![captures.ptr] =
            [k \in 1..Len(@) |->
               IF k <= Min(captures.len, Cardinality(DOMAIN mem))
               THEN mem[k - 1] ELSE @[k]]]

(* Dofn up to the call of lhs.Mc.Run(lhs.LocToCall).                       *)
Dofn ==
    /\ Fetch("Dofn")
    /\ IF Mem[vm][A(args, 1)].T = FUNC
       THEN LET lhs == Mem[vm][A(args, 1)].V
                r   == DofnLoop(Mem, vm, args, lhs, 0)
            IN /\ Mem' = r.Mem
               /\ IF r.ok
                  THEN /\ heap' = DofnCopy(heap, lhs.Captures, r.Mem[vm])
                       /\ runs' = Append(runs, Run(lhs.Mc, lhs.LocToCall, lhs))
                  ELSE Panic /\ UNCHANGED heap
       ELSE Panic /\ UNCHANGED <<Mem, heap>>
    /\ Executed("Dofn")
    /\ UNCHANGED callstack /\ Fixed

(* Dofn after lhs.Mc.Run has returned: vm.Mem[args[0]] =                   *)
(* lhs.Mc.Mem[lhs.Dest], then loc++.                                       *)
DofnReturn ==
    /\ Len(runs) > 1
    /\ top.st = "ret"
    /\ LET outer == runs[Len(runs) - 1]
           a     == Code[outer.vm][outer.loc].Args
       IN /\ Mem' = [Mem EXCEPT ![outer.vm][A(a, 0)] = Mem[top.lhs.Mc][top.lhs.Dest]]
          /\ runs' = [SubSeq(runs, 1, Len(runs) - 1)
                        EXCEPT ![Len(runs) - 1].loc = outer.loc + 1]
          /\ prev' = [Opcode |-> "DofnReturn", vm |-> outer.vm, loc |-> outer.loc,
                      Args |-> a, Mem |-> Mem, callstack |-> callstack,
                      heap |-> heap, depth |-> Len(runs)]
    /\ UNCHANGED <<callstack, heap>> /\ Fixed

----------------------------------------------------------------------------
(* The programs and register files the model runs.                         *)
(*                                                                         *)
(* The main VM runs an 8-instruction program from Entry: two instructions  *)
(* under test, then fixed code that every jump and call target lies in:    *)
(*     0: <a>   1: <b>   2: Halt   3: Ret                                  *)
(*     4: Jsr 6   5: Ret           (a subroutine that calls another)       *)
(*     6: Asgm m12 <- m3   7: Ret  (a subroutine, and the thunk's code)    *)
(* The lambda VM runs a one-instruction body followed by Ret.              *)

(* Registers of the main VM: 0..3 the constants; 4 TUPLE [1, 2];           *)
(* 5 TUPLE [3]; 6 NULL; 7 INT 41; 8..11 the INT_ARRAYs [], [0], [1],       *)
(* [0, 2]; 12..14 zero values (parameters and scratch).                    *)
MainMem ==
    [r \in 0..14 |->
       CASE r \in 0..3 -> VmConstants[r + 1]
         [] r = 4  -> Val(TUPLE, [ptr |-> 1, len |-> 2])
         [] r = 5  -> Val(TUPLE, [ptr |-> 2, len |-> 1])
         [] r = 6  -> Val(NULL, Nil)
         [] r = 7  -> Val(INT, 41)
         [] r = 8  -> Val(INT_ARRAY, <<>>)
         [] r = 9  -> Val(INT_ARRAY, <<0>>)
         [] r = 10 -> Val(INT_ARRAY, <<1>>)
         [] r = 11 -> Val(INT_ARRAY, <<0, 2>>)
         [] OTHER  -> ZeroValue]

MainHeap == << <<Val(INT, 1), Val(INT, 2)>>, <<Val(INT, 3)>> >>

(* The lambda's VM: registers 0, 1 for the captures (ExtTop = 2), 2 the    *)
(* parameter (PrmTop = 3), 3 the result (Dest).                            *)
LambdaMem == [r \in 0..3 |-> ZeroValue]

TheFactory ==
    [Model |-> Lambda("lambda", 2, 3, 3, 0), ExtMem |-> <<7, 4>>, Size |-> 4]

(* Bounds on the operand lists the programs use.                           *)
MaxCallArgs == 2
MaxTupleArgs == 3

(* Argument registers for CalT and CvTT, longest list first.               *)
ArgPool == <<3, 7, 1, 6, 0>>

Seqs(S, n) == UNION {[1..k -> S] : k \in 0..n}

Targets == {2, 4, 6}

ControlInstrs ==
    {Op("Halt", <<>>), Op("Ret", <<>>)}
    \cup {Op("Jmp", <<t>>) : t \in {2, 4}}
    \cup {Op("Jsr", <<t>>) : t \in {4, 6}}
    \cup {Op("Thnk", <<r, t>>) : r \in {12}, t \in {4, 6}}
    \cup {Op("Untk", <<r>>) : r \in {3, 12}}

RegisterInstrs ==
    {Op("Asgm", <<d, x>>) : d \in {7, 12}, x \in {3, 4}}
    \cup {Op("Addi", <<12, 3, x>>) : x \in {7, 4}}

CondInstrs ==
    {Op("Qtru", <<c, t>>) : c \in {0, 1, 3}, t \in {2, 4}}
    \cup {Op(q, <<c, t>>) : q \in {"Qsng", "QsnQ"}, c \in {2, 3, 4, 6}, t \in {2, 4}}
    \cup {Op("Qtyp", <<c, ty, t>>) : c \in {1, 3, 4}, ty \in {INT, BOOL, TUPLE}, t \in {4}}
    \cup {Op("QlnT", <<c, k, t>>) : c \in {3, 4, 5}, k \in {1, 2}, t \in {2, 4}}

CallInstrs ==
    {Op("Call", <<4, 12, 12 + Len(a)>> \o a) : a \in Seqs({3, 7, 12, 13}, MaxCallArgs)}
    \cup {Op("CalT", <<4, 12, l>> \o SubSeq(ArgPool, 1, n)) :
            l \in 8..11, n \in 0..MaxTupleArgs}

TupleInstrs ==
    {Op(oc, <<d, x, y>>) : oc \in {"Cc11", "Cc1T", "CcT1", "CcTT", "Ccxx"},
                           d \in {12}, x \in {3, 4, 5, 12}, y \in {3, 4, 5}}
    \cup {Op("Cv1T", <<12, x>>) : x \in {3, 4}}
    \cup {Op("CvTT", <<12>> \o SubSeq(ArgPool, 1, n)) : n \in 0..MaxTupleArgs}

ClosureInstrs ==
    {Op("Mkfn", <<12, 0>>), Op("Mkfn", <<12, 1>>)}
    \cup {Op("Dofn", <<13, f>> \o a) : f \in {12, 3}, a \in {<<>>, <<3>>, <<7>>}}

Instrs ==
    ControlInstrs \cup RegisterInstrs \cup CondInstrs \cup CallInstrs
    \cup TupleInstrs \cup ClosureInstrs

MainCode(a, b) ==
    [l \in 0..7 |->
       CASE l = 0 -> a
         [] l = 1 -> b
         [] l = 2 -> Op("Halt", <<>>)
         [] l = 4 -> Op("Jsr", <<6>>)
         [] l = 6 -> Op("Asgm", <<12, 3>>)
         [] OTHER -> Op("Ret", <<>>)]

LambdaBodies == {Op("Asgm", <<3, 2>>), Op("Addi", <<3, 0, 2>>)}

LambdaCode(body) == [l \in 0..1 |-> IF l = 0 THEN body ELSE Op("Ret", <<>>)]

(* Run(entry) of the main VM.                                              *)
Entry == 0

Init ==
    /\ \E a \in Instrs, b \in Instrs, body \in LambdaBodies :
          /\ ("Dofn" \in {a.Opcode, b.Opcode} \/ body.Opcode = "Asgm")
          /\ Code = [main |-> MainCode(a, b), lambda |-> LambdaCode(body)]
    /\ Mem = [main |-> MainMem, lambda |-> LambdaMem]
    /\ callstack = [main |-> <<>>, lambda |-> <<>>]
    /\ LambdaFactories = [i \in {0} |-> TheFactory]
    /\ heap = MainHeap
    /\ StructResolve = <<>>
    /\ runs = <<Run("main", Entry, NoLambda)>>
    /\ Tokens = <<>> /\ vmToAdd = <<>> /\ schemes = <<>>
    /\ FunctionTable = <<>> /\ FunctionTreeMap = <<>>
    /\ prev = [Opcode |-> "Run", vm |-> "main", loc |-> Entry, Args |-> <<>>,
               Mem |-> Mem, callstack |-> callstack, heap |-> heap, depth |-> 0]

Next ==
    \/ Halt \/ Jmp \/ Jsr \/ Ret
    \/ Asgm \/ Addi \/ Thnk \/ Untk
    \/ Qsng \/ QsnQ \/ Qtru \/ Qtyp \/ QlnT
    \/ Call \/ CalT
    \/ Cc11 \/ Cc1T \/ CcT1 \/ CcTT \/ Ccxx \/ Cv1T \/ CvTT
    \/ Mkfn \/ Dofn \/ DofnReturn

Spec == Init /\ [][Next]_vars

----------------------------------------------------------------------------
(* What the claims below read: the instruction executed last (prev), the   *)
(* register file it ran on before (PMem) and after (CMem), and the         *)
(* activation that executed it.                                            *)

Ran(oc) == prev.Opcode = oc
PMem == prev.Mem[prev.vm]
CMem == Mem[prev.vm]
PStack == prev.callstack[prev.vm]
CStack == callstack[prev.vm]
PArg(i) == A(prev.Args, i)

(* The activation that executed the last instruction, and whether that     *)
(* instruction panicked.                                                   *)
Act == runs[prev.depth]
Panicked == ~Ran("Run") /\ ~Ran("DofnReturn") /\ Act.st = "panic"

CallingOps == {"Jsr", "Call", "CalT", "Untk"}

(* The last instruction made a call: a Jsr, a Call or CalT that did not    *)
(* panic, or an Untk of a THUNK register.                                  *)
Called ==
    /\ prev.Opcode \in CallingOps
    /\ ~Panicked
    /\ Ran("Untk") => PMem[PArg(0)].T = THUNK

CallTarget == IF Ran("Untk") THEN PMem[PArg(0)].V ELSE PArg(0)

(* C1: a run starts at its entry offset (Entry for the main run, the       *)
(* lambda's LocToCall for the run a Dofn starts); it ends exactly when it  *)
(* executes Halt, or Ret on an empty call stack; a Ret on a non-empty call *)
(* stack, and every other instruction, leaves it running (or panics).      *)
C1_RunEnds ==
    /\ Ran("Run") => top = Run("main", Entry, NoLambda)
    /\ (Ran("Dofn") /\ ~Panicked) =>
          /\ Len(runs) = prev.depth + 1
          /\ top = Run(PMem[PArg(1)].V.Mc, PMem[PArg(1)].V.LocToCall, PMem[PArg(1)].V)
    /\ \A k \in 1..Len(runs) :
          runs[k].st = "ret" =>
             /\ k = Len(runs)
             /\ Ran("Halt") \/ (Ran("Ret") /\ PStack = <<>>)
    /\ Ran("Halt") => Act.st = "ret"
    /\ Ran("Ret") => (Act.st = "ret" <=> PStack = <<>>)

C1_Witness ==
    /\ Ran("Ret") /\ prev.loc = 5 /\ PStack = <<>>
    /\ Len(runs) = 1 /\ top.st = "ret"
    /\ Mem["main"][12] = ONE

C3_Cond(oc) ==
    CASE oc = "Qtru" -> PMem[PArg(0)] = TRUE_
      [] oc = "Qtyp" -> PMem[PArg(0)].T = PArg(1)
      [] oc = "Qsng" -> PMem[PArg(0)].T >= INT
      [] oc = "QsnQ" -> PMem[PArg(0)].T >= NULL

C3_Conditionals ==
    (/\ prev.Opcode \in {"Qtru", "Qtyp", "Qsng", "QsnQ"}
     /\ Ran("Qtru") => PMem[PArg(0)].T = BOOL)
    => /\ Act.st = "run"
       /\ Act.loc = IF C3_Cond(prev.Opcode) THEN prev.loc + 1
                    ELSE A(prev.Args, Len(prev.Args) - 1)
       /\ Mem = prev.Mem /\ callstack = prev.callstack /\ heap = prev.heap

C3_Witness ==
    /\ Ran("Qsng") /\ PMem[PArg(0)].T = NULL
    /\ Act.loc = 4 /\ prev.loc = 1

(* C4 (as claimed): QlnT reg, k, target at offset p, on a tuple register,  *)
(* continues at p + 1 when the tuple has length k and at target otherwise. *)
C4_QlnTAsClaimed ==
    (Ran("QlnT") /\ PMem[PArg(0)].T = TUPLE)
    => /\ Act.st = "run"
       /\ Act.loc = IF PMem[PArg(0)].V.len = PArg(1) THEN prev.loc + 1 ELSE PArg(2)

(* C5 (as claimed): after Call target, base, hireg, a0, a1, ... every      *)
(* mem[base + i] below hireg holds the value a_i held before the Call, the *)
(* offset of the Call is pushed and execution continues at target.         *)
C5_CallAsClaimed ==
    (Ran("Call") /\ PArg(2) - PArg(1) = Len(prev.Args) - 3)
    => /\ \A i \in 0..(PArg(2) - PArg(1) - 1) : CMem[PArg(1) + i] = PMem[PArg(3 + i)]
       /\ CStack = Append(PStack, prev.loc)
       /\ Act.st = "run" /\ Act.loc = PArg(0)

(* C6 (as claimed): CalT completes for every tuple-position list, the      *)
(* empty one included; arguments before the first tuple position are       *)
(* copied to mem[base + position]; and every tuple position that an        *)
(* argument reaches holds a fresh TUPLE that begins with that argument.    *)
C6_TupleList == PMem[PArg(2)].V

C6_FirstTuple ==
    IF C6_TupleList = <<>> THEN Len(prev.Args) ELSE C6_TupleList[1]

C6_CalTAsClaimed ==
    Ran("CalT")
    => /\ Act.st = "run" /\ Act.loc = PArg(0)
       /\ CStack = Append(PStack, prev.loc)
       /\ \A i \in 0..(Len(prev.Args) - 4) :
             i < C6_FirstTuple => CMem[PArg(1) + i] = PMem[PArg(3 + i)]
       /\ \A n \in 1..Len(C6_TupleList) :
             C6_TupleList[n] < Len(prev.Args) - 3
             => /\ CMem[PArg(1) + C6_TupleList[n]].T = TUPLE
                /\ CMem[PArg(1) + C6_TupleList[n]].V.len >= 1
                /\ Elems(heap, CMem[PArg(1) + C6_TupleList[n]].V)[1]
                      = PMem[PArg(3 + C6_TupleList[n])]

(* The elements of the tuple in register r after, and before, the last     *)
(* instruction.                                                            *)
CTuple(r) == Elems(heap, CMem[r].V)
PTuple(r) == Elems(prev.heap, PMem[r].V)

(* C7: Cc11 writes TUPLE [a, b]; Cc1T with a tuple b writes [a] followed   *)
(* by the elements of b; CcT1 with a tuple a writes the elements of a      *)
(* followed by b; Cv1T writes [a]; CvTT writes the tuple of its k source   *)
(* registers' values in operand order.                                     *)
C7_Expected ==
    CASE Ran("Cc11") -> <<PMem[PArg(1)], PMem[PArg(2)]>>
      [] Ran("Cc1T") -> <<PMem[PArg(1)]>> \o PTuple(PArg(2))
      [] Ran("CcT1") -> PTuple(PArg(1)) \o <<PMem[PArg(2)]>>
      [] Ran("Cv1T") -> <<PMem[PArg(1)]>>
      [] Ran("CvTT") -> [i \in 1..(Len(prev.Args) - 1) |-> PMem[PArg(i)]]

C7_TupleConstructors ==
    (/\ prev.Opcode \in {"Cc11", "Cc1T", "CcT1", "Cv1T", "CvTT"}
     /\ Ran("Cc1T") => PMem[PArg(2)].T = TUPLE
     /\ Ran("CcT1") => PMem[PArg(1)].T = TUPLE)
    => /\ Act.st = "run" /\ Act.loc = prev.loc + 1
       /\ CMem[PArg(0)].T = TUPLE
       /\ CTuple(PArg(0)) = C7_Expected

C7_Witness ==
    /\ Ran("Cc1T") /\ PMem[PArg(1)].T = INT /\ PMem[PArg(2)].T = TUPLE
    /\ CTuple(PArg(0)) = <<Val(INT, 1), Val(INT, 1), Val(INT, 2)>>

(* C8 (as claimed): CcTT on two tuples writes the elements of mem[a]       *)
(* followed by the elements of mem[b].                                     *)
C8_CcTTAsClaimed ==
    (Ran("CcTT") /\ PMem[PArg(1)].T = TUPLE /\ PMem[PArg(2)].T = TUPLE)
    => /\ CMem[PArg(0)].T = TUPLE
       /\ CTuple(PArg(0)) = PTuple(PArg(1)) \o PTuple(PArg(2))

(* C9: Ccxx writes the tuple that the monomorphic opcode chosen by its     *)
(* operands' tags writes from the same registers: Cc11 when neither is a   *)
(* TUPLE, Cc1T when only mem[b] is, CcT1 when only mem[a] is, CcTT when    *)
(* both are.                                                               *)
C9_Monomorphic ==
    IF PMem[PArg(1)].T = TUPLE
    THEN IF PMem[PArg(2)].T = TUPLE
         THEN CcTTVal(PMem, prev.heap, prev.Args, 0)
         ELSE CcT1Val(PMem, prev.heap, prev.Args, 0)
    ELSE IF PMem[PArg(2)].T = TUPLE
         THEN Cc1TVal(PMem, prev.heap, prev.Args, 0)
         ELSE Cc11Val(PMem, prev.heap, prev.Args)

C9_CcxxDispatch ==
    Ran("Ccxx")
    => /\ Act.st = "run" /\ Act.loc = prev.loc + 1
       /\ C9_Monomorphic.ok
       /\ CMem[PArg(0)].T = TUPLE
       /\ CTuple(PArg(0)) = Elems(C9_Monomorphic.heap, C9_Monomorphic.s)

C9_Witness ==
    /\ Ran("Ccxx") /\ PMem[PArg(1)].T = TUPLE /\ PMem[PArg(2)].T = TUPLE
    /\ Len(CTuple(PArg(0))) = 3

(* The captures of the FUNC value in register r of VM v.                   *)
CapturesOf(h, M, v, r) == Elems(h, M[v][r].V.Captures)

(* C10 (as claimed): Mkfn writes a FUNC whose captures are the values the  *)
(* registers of the factory's ExtMem hold at that moment, and no later     *)
(* instruction changes the captures of a FUNC value held in a register;    *)
(* the factory's Model stays without captures.                             *)
C10_SnapshotAsClaimed ==
    /\ (Ran("Mkfn") /\ ~Panicked) =>
          /\ CMem[PArg(0)].T = FUNC
          /\ CapturesOf(heap, Mem, prev.vm, PArg(0))
                = MkfnCaptures(PMem, LambdaFactories[PArg(1)].ExtMem)
    /\ ~Ran("Run") =>
          \A v \in DOMAIN Mem : \A r \in DOMAIN Mem[v] :
             (prev.Mem[v][r].T = FUNC /\ Mem[v][r] = prev.Mem[v][r])
             => CapturesOf(heap, Mem, v, r) = CapturesOf(prev.heap, prev.Mem, v, r)
    /\ \A i \in DOMAIN LambdaFactories : LambdaFactories[i].Model.Captures = NilSlice

(* C11 (as claimed): when Dofn dst, fn, a0, ... has started the lambda's   *)
(* run, the parameter registers [ExtTop, PrmTop) of the lambda's register  *)
(* file hold the arguments in order and its registers from 0 hold the      *)
(* values the lambda had captured; when the body has returned, the outer   *)
(* mem[dst] is the lambda's mem[Dest]; and the body Addi m3 <- m0, m2 of a *)
(* lambda that captured INT 41, called with INT 1, computes INT 42.        *)
C11_Lhs == PMem[PArg(1)].V

C11_DofnAsClaimed ==
    /\ (Ran("Dofn") /\ ~Panicked) =>
          /\ \A i \in 0..(C11_Lhs.PrmTop - C11_Lhs.ExtTop - 1) :
                Mem[C11_Lhs.Mc][C11_Lhs.ExtTop + i] = PMem[PArg(2 + i)]
          /\ \A k \in 1..C11_Lhs.Captures.len :
                Mem[C11_Lhs.Mc][k - 1] = Elems(prev.heap, C11_Lhs.Captures)[k]
    /\ Ran("DofnReturn") => CMem[PArg(0)] = Mem[C11_Lhs.Mc][C11_Lhs.Dest]
    /\ (/\ Ran("Addi") /\ prev.vm = "lambda" /\ prev.Args = <<3, 0, 2>>
        /\ Code["main"][0] = Op("Mkfn", <<12, 0>>)
        /\ Code["main"][1] = Op("Dofn", <<13, 12, 3>>))
       => /\ ~Panicked
          /\ Mem["lambda"][3] = Val(INT, 42)

----------------------------------------------------------------------------
(* Two invocations of one closure.  The main VM runs                       *)
(*     0: Mkfn m12, f     1: Dofn m13, m12, x     2: Asgm m14 <- m13       *)
(*     3: Dofn m13, m12, y     4: Halt                                     *)
(* and the lambda VM a two-instruction body followed by Ret.               *)

(* A factory whose ExtMem names the registers 0 and 1 of the outer VM.     *)
SnapFactory ==
    [Model |-> Lambda("lambda", 2, 3, 3, 0), ExtMem |-> <<0, 1>>, Size |-> 4]

ClosureFactories == <<TheFactory, SnapFactory>>

ClosureCode(f, x, y) ==
    [l \in 0..4 |->
       CASE l = 0 -> Op("Mkfn", <<12, f>>)
         [] l = 1 -> Op("Dofn", <<13, 12, x>>)
         [] l = 2 -> Op("Asgm", <<14, 13>>)
         [] l = 3 -> Op("Dofn", <<13, 12, y>>)
         [] OTHER -> Op("Halt", <<>>)]

LambdaSteps ==
    {Op("Asgm", <<3, 0>>), Op("Asgm", <<3, 1>>), Op("Asgm", <<3, 2>>),
     Op("Asgm", <<0, 2>>), Op("Addi", <<3, 2, 2>>)}

ClosureBody(s, t) ==
    [l \in 0..2 |-> CASE l = 0 -> s [] l = 1 -> t [] OTHER -> Op("Ret", <<>>)]

InitClosure ==
    /\ \E f \in {0, 1}, x \in {3, 7}, y \in {3, 7}, s \in LambdaSteps, t \in LambdaSteps :
          Code = [main |-> ClosureCode(f, x, y), lambda |-> ClosureBody(s, t)]
    /\ Mem = [main |-> MainMem, lambda |-> LambdaMem]
    /\ callstack = [main |-> <<>>, lambda |-> <<>>]
    /\ LambdaFactories = [i \in {0, 1} |-> ClosureFactories[i + 1]]
    /\ heap = MainHeap
    /\ StructResolve = <<>>
    /\ runs = <<Run("main", Entry, NoLambda)>>
    /\ Tokens = <<>> /\ vmToAdd = <<>> /\ schemes = <<>>
    /\ FunctionTable = <<>> /\ FunctionTreeMap = <<>>
    /\ prev = [Opcode |-> "Run", vm |-> "main", loc |-> Entry, Args |-> <<>>,
               Mem |-> Mem, callstack |-> callstack, heap |-> heap, depth |-> 0]

NextClosure ==
    \/ Halt \/ Ret \/ Asgm \/ Addi
    \/ Mkfn \/ Dofn \/ DofnReturn

SpecClosure == InitClosure /\ [][NextClosure]_vars

(* C12 (as claimed): when the second of two Dofn of the same lambda has    *)
(* returned, the arguments of the two being the same and the lambda's      *)
(* captures being still the values Mkfn captured, the destination holds    *)
(* the value the first invocation left there (saved in m14).               *)
C12_PurityAsClaimed ==
    (/\ Ran("DofnReturn") /\ prev.loc = 3
     /\ Code["main"][1].Args = Code["main"][3].Args
     /\ CapturesOf(heap, Mem, "main", 12)
           = MkfnCaptures(MainMem, LambdaFactories[A(Code["main"][0].Args, 1)].ExtMem))
    => Mem["main"][13] = Mem["main"][14]

----------------------------------------------------------------------------
(* Containers: strings, lists, pairs, tuples, sets, maps and structs.      *)
(*                                                                         *)
(* A string is its sequence of bytes, a LIST (a persistent vector) the     *)
(* sequence of its elements, a PAIR or a struct a slice like a TUPLE.      *)

(* The first tag after the built-in ones: the enum types start here.       *)
LB_ENUMS == 20

(* Payloads that are a Go int: .V.(int) holds for them.                    *)
HasIntPayload(v) == v.T \in {INT, LABEL}

(* string(b) for a byte b: the UTF-8 encoding of the code point b.         *)
StringOfByte(b) == IF b < 128 THEN <<b>> ELSE <<192 + (b \div 64), 128 + (b % 64)>>

(* vec.Index(ix) of the persistent vector: the element and ok.             *)
VectorIndex(vec, ix) ==
    IF 0 <= ix /\ ix < Len(vec) THEN [val |-> vec[ix + 1], ok |-> TRUE]
    ELSE [val |-> ZeroValue, ok |-> FALSE]

(* The common shape of the four Idx cases: the type assertions on the      *)
(* container (a tag of tags) and on the index, then the store of the       *)
(* element x when inRange, of mem[args[3]] otherwise.  indexable is FALSE  *)
(* when the element read lies beyond the slice (a panic).                  *)
IdxStep(oc, tags, inRange, indexable, x) ==
    /\ Fetch(oc)
    /\ IF /\ Mem[vm][A(args, 1)].T \in tags
          /\ HasIntPayload(Mem[vm][A(args, 2)])
          /\ inRange => indexable
       THEN Store(A(args, 0), IF inRange THEN x ELSE Mem[vm][A(args, 3)]) /\ FallThrough
       ELSE Panic /\ UNCHANGED Mem
    /\ Executed(oc)
    /\ UNCHANGED <<callstack, heap>> /\ Fixed

IdxL ==
    LET vec == Mem[vm][A(args, 1)].V
        ix  == Mem[vm][A(args, 2)].V
    IN IdxStep("IdxL", {LIST}, VectorIndex(vec, ix).ok, TRUE, VectorIndex(vec, ix).val)

Idxp ==
    LET pair == Mem[vm][A(args, 1)].V
        ix   == Mem[vm][A(args, 2)].V
    IN IdxStep("Idxp", {TUPLE, PAIR}, ix = 0 \/ ix = 1, ix < pair.len,
               Elems(heap, pair)[ix + 1])

Idxs ==
    LET str == Mem[vm][A(args, 1)].V
        ix  == Mem[vm][A(args, 2)].V
    IN IdxStep("Idxs", {STRING_}, 0 <= ix /\ ix < Len(str), TRUE,
               Val(STRING_, StringOfByte(str[ix + 1])))

IdxT ==
    LET tuple == Mem[vm][A(args, 1)].V
        ix    == Mem[vm][A(args, 2)].V
    IN IdxStep("IdxT", {TUPLE, PAIR}, 0 <= ix /\ ix < tuple.len, TRUE,
               Elems(heap, tuple)[ix + 1])

(* Vm.Enums: one enum type of two elements; Ub_enums is the tag of the     *)
(* first struct type.                                                      *)
Enums == << <<"RED", "GREEN">> >>

Ub_enums == LB_ENUMS + Len(Enums)

(* vm.That(): the last register.                                           *)
That(mem) == Cardinality(DOMAIN mem) - 1

(* The test both constructors make of an element's tag.                    *)
Admissible(v) ==
    (NULL <= v.T /\ v.T < PAIR) \/ (LB_ENUMS <= v.T /\ v.T < Ub_enums)

(* values.Set as the set of its members, *values.Map as the set of its     *)
(* key/value entries.                                                      *)
SetAdd(set, v) == set \cup {v}

MapSet(map, k, v) == {e \in map : e.k # k} \cup {[k |-> k, v |-> v]}

(* The loop of Mkst over the elements xs and the store after it.           *)
RECURSIVE MkstLoop(_, _, _, _, _)
MkstLoop(mem, a, xs, i, result) ==
    IF i > Len(xs) THEN [mem EXCEPT ![A(a, 0)] = Val(SET, result)]
    ELSE MkstLoop(IF ~Admissible(xs[i])
                  THEN [mem EXCEPT ![A(a, 0)] = mem[That(mem)]] ELSE mem,
                  a, xs, i + 1, SetAdd(result, xs[i]))

Mkst ==
    /\ Fetch("Mkst")
    /\ IF HasSlicePayload(Mem[vm][A(args, 1)])
       THEN /\ Mem' = [Mem EXCEPT ![vm] =
                         MkstLoop(@, args, Elems(heap, @[A(args, 1)].V), 1, {})]
            /\ FallThrough
       ELSE Panic /\ UNCHANGED Mem
    /\ Executed("Mkst")
    /\ UNCHANGED <<callstack, heap>> /\ Fixed

(* The loop of Mkmp and the store after it; `break` on an element that is  *)
(* no PAIR goes to that store too.                                         *)
RECURSIVE MkmpLoop(_, _, _, _, _, _)
MkmpLoop(mem, h, a, xs, i, result) ==
    IF i > Len(xs) THEN [mem EXCEPT ![A(a, 0)] = Val(MAP, result)]
    ELSE IF xs[i].T # PAIR
    THEN [[mem EXCEPT ![A(a, 0)] = mem[That(mem) - 1]] EXCEPT ![A(a, 0)] = Val(MAP, result)]
    ELSE LET k == Elems(h, xs[i].V)[1]
             v == Elems(h, xs[i].V)[2]
         IN MkmpLoop(IF ~Admissible(v)
                     THEN [mem EXCEPT ![A(a, 0)] = mem[That(mem)]] ELSE mem,
                     h, a, xs, i + 1, MapSet(result, k, v))

Mkmp ==
    /\ Fetch("Mkmp")
    /\ IF HasSlicePayload(Mem[vm][A(args, 1)])
       THEN /\ Mem' = [Mem EXCEPT ![vm] =
                         MkmpLoop(@, heap, args, Elems(heap, @[A(args, 1)].V), 1, {})]
            /\ FallThrough
       ELSE Panic /\ UNCHANGED Mem
    /\ Executed("Mkmp")
    /\ UNCHANGED <<callstack, heap>> /\ Fixed

----------------------------------------------------------------------------
(* The struct resolver (MapResolver): a list, by struct number, of maps    *)
(* from label number to field number.                                      *)

(* A map that numbers the fields from 1.                                   *)
NewMapOneBased(labels) ==
    [v \in {labels[k] : k \in DOMAIN labels} |->
       CHOOSE k \in DOMAIN labels :
          labels[k] = v /\ \A j \in DOMAIN labels : labels[j] = v => j <= k]

(* The map Add builds: newMap[v] = k for k, v := range labels, a later k   *)
(* replacing an earlier one.  Field numbers count from 0.                  *)
NewMap(labels) ==
    [v \in {labels[k] : k \in DOMAIN labels} |->
       (CHOOSE k \in DOMAIN labels :
           labels[k] = v /\ \A j \in DOMAIN labels : labels[j] = v => j <= k) - 1]

(* An Add that appends whatever the struct number.                         *)
AddUnchecked(mr, structNumber, labels) ==
    [ok |-> TRUE, mr |-> Append(mr, NewMap(labels))]

(* mr.Add(structNumber, labels): the resolver returned, or a panic.        *)
Add(mr, structNumber, labels) ==
    IF structNumber # Len(mr) THEN [ok |-> FALSE, mr |-> mr]
    ELSE [ok |-> TRUE, mr |-> Append(mr, NewMap(labels))]

(* mr.Resolve(structNumber, labelNumber): mr[structNumber] panics out of   *)
(* range; a label that is no key gives -1.                                 *)
Resolve(mr, structNumber, labelNumber) ==
    IF structNumber < 0 \/ structNumber >= Len(mr) THEN [ok |-> FALSE, ix |-> -1]
    ELSE IF labelNumber \in DOMAIN mr[structNumber + 1]
         THEN [ok |-> TRUE, ix |-> mr[structNumber + 1][labelNumber]]
         ELSE [ok |-> TRUE, ix |-> -1]

(* Struct values too have a []values.Value payload.                        *)
IsSlice(v) == HasSlicePayload(v) \/ v.T >= Ub_enums

(* Strc: fields is made with room for every operand after the tag, and    *)
(* each mem[loc] is appended.                                              *)
Strc ==
    /\ Fetch("Strc")
    /\ LET fields == [i \in 1..(Len(args) - 2) |-> Mem[vm][A(args, i + 1)]]
           new    == MakeSlice(heap, fields, Len(args) - 2)
       IN /\ heap' = new.heap
          /\ Store(A(args, 0), Val(A(args, 1), new.s))
    /\ FallThrough
    /\ Executed("Strc")
    /\ UNCHANGED callstack /\ Fixed

(* Reading field ix of the struct in register r, or a panic.               *)
ReadField(oc, ok, ix) ==
    /\ Fetch(oc)
    /\ IF ok /\ IsSlice(Mem[vm][A(args, 1)])
          /\ 0 <= ix /\ ix < Mem[vm][A(args, 1)].V.len
       THEN Store(A(args, 0), Elems(heap, Mem[vm][A(args, 1)].V)[ix + 1]) /\ FallThrough
       ELSE Panic /\ UNCHANGED Mem
    /\ Executed(oc)
    /\ UNCHANGED <<callstack, heap>> /\ Fixed

(* The struct number IxZl resolves is the unsigned difference of the tag   *)
(* and Ub_enums: for a smaller tag it wraps to a number beyond every       *)
(* resolver, as the signed difference here is.                             *)
IxZl ==
    LET r == Resolve(StructResolve, Mem[vm][A(args, 1)].T - Ub_enums, Mem[vm][A(args, 2)].V)
    IN ReadField("IxZl", HasIntPayload(Mem[vm][A(args, 2)]) /\ r.ok, r.ix)

IxZn == ReadField("IxZn", TRUE, A(args, 2))

----------------------------------------------------------------------------
(* The container programs: two instructions under test, then Halt.         *)

ErrorValue(id) == Val(ERROR, [ErrorId |-> id])

(* Registers: 0..3 the constants (3 is INT 1); 4..8 INT -1, 0, 2, 3, 7;    *)
(* 9 the string "aé" (bytes 61 C3 A9); 10 LIST [3, 7]; 11 PAIR 3::7;  *)
(* 12 TUPLE [3, 7, 3]; 13 TUPLE [3, LABEL 6]; 14 TUPLE [3::7, 7::true];    *)
(* 15 TUPLE [3::7, 3]; 16..18 LABEL 5, 6, 7; 19..21 zero values (the       *)
(* destinations); 22 the failure value of the Idx opcodes; 23, 24 the      *)
(* errors reserved before a Mkmp (24 alone before a Mkst).                 *)
DataMem ==
    [r \in 0..24 |->
       CASE r \in 0..3 -> VmConstants[r + 1]
         [] r = 4  -> Val(INT, -1)
         [] r = 5  -> Val(INT, 0)
         [] r = 6  -> Val(INT, 2)
         [] r = 7  -> Val(INT, 3)
         [] r = 8  -> Val(INT, 7)
         [] r = 9  -> Val(STRING_, <<97, 195, 169>>)
         [] r = 10 -> Val(LIST, <<Val(INT, 3), Val(INT, 7)>>)
         [] r = 11 -> Val(PAIR, [ptr |-> 1, len |-> 2])
         [] r = 12 -> Val(TUPLE, [ptr |-> 2, len |-> 3])
         [] r = 13 -> Val(TUPLE, [ptr |-> 3, len |-> 2])
         [] r = 14 -> Val(TUPLE, [ptr |-> 4, len |-> 2])
         [] r = 15 -> Val(TUPLE, [ptr |-> 6, len |-> 2])
         [] r \in 16..18 -> Val(LABEL, r - 11)
         [] r = 22 -> ErrorValue("vm/index")
         [] r = 23 -> ErrorValue("built/map/pair")
         [] r = 24 -> ErrorValue("built/map/type")
         [] OTHER  -> ZeroValue]

DataHeap ==
    << <<Val(INT, 3), Val(INT, 7)>>,
       <<Val(INT, 3), Val(INT, 7), Val(INT, 3)>>,
       <<Val(INT, 3), Val(LABEL, 6)>>,
       <<Val(PAIR, [ptr |-> 1, len |-> 2]), Val(PAIR, [ptr |-> 5, len |-> 2])>>,
       <<Val(INT, 7), TRUE_>>,
       <<Val(PAIR, [ptr |-> 1, len |-> 2]), Val(INT, 3)>> >>

(* The label lists of the struct types 0 and 1.                            *)
StructLabels == << <<5, 6>>, <<6, 7, 5>> >>

DataInstrs ==
    {Op(i[1], <<19, i[2], ix, 22>>) :
        i \in {<<"IdxL", 10>>, <<"Idxp", 11>>, <<"Idxs", 9>>, <<"IdxT", 12>>},
        ix \in {3, 4, 5, 6, 7}}
    \cup {Op("Mkst", <<19, x>>) : x \in {12, 13}}
    \cup {Op("Mkmp", <<19, x>>) : x \in {14, 15}}
    \cup {Op("Strc", <<20, Ub_enums>> \o f) : f \in {<<7, 8>>, <<8, 3>>}}
    \cup {Op("Strc", <<20, Ub_enums + 1, 8, 7, 3>>)}
    \cup {Op("IxZl", <<21, 20, l>>) : l \in 16..18}
    \cup {Op("IxZn", <<21, 20, k>>) : k \in 0..2}
    \cup {Op("Halt", <<>>)}

InitData ==
    /\ \E a \in DataInstrs, b \in DataInstrs :
          Code = [main   |-> [l \in 0..2 |-> CASE l = 0 -> a [] l = 1 -> b
                                                  [] OTHER -> Op("Halt", <<>>)],
                  lambda |-> LambdaCode(Op("Ret", <<>>))]
    /\ Mem = [main |-> DataMem, lambda |-> LambdaMem]
    /\ callstack = [main |-> <<>>, lambda |-> <<>>]
    /\ LambdaFactories = <<>>
    /\ heap = DataHeap
    /\ StructResolve = Add(Add(<<>>, 0, StructLabels[1]).mr, 1, StructLabels[2]).mr
    /\ runs = <<Run("main", Entry, NoLambda)>>
    /\ Tokens = <<>> /\ vmToAdd = <<>> /\ schemes = <<>>
    /\ FunctionTable = <<>> /\ FunctionTreeMap = <<>>
    /\ prev = [Opcode |-> "Run", vm |-> "main", loc |-> Entry, Args |-> <<>>,
               Mem |-> Mem, callstack |-> callstack, heap |-> heap, depth |-> 0]

NextData ==
    \/ Halt
    \/ IdxL \/ Idxp \/ Idxs \/ IdxT
    \/ Mkst \/ Mkmp
    \/ Strc \/ IxZl \/ IxZn

SpecData == InitData /\ [][NextData]_vars

(* C13 (as claimed): Idxs, IdxL, Idxp, IdxT dst, container, ix, fail with  *)
(* an integer ix never abort; when 0 <= ix < the length (bytes of the      *)
(* string, elements of the list or tuple, 2 for a pair) dst receives the   *)
(* element at ix, for Idxs the one-byte string of the byte at ix;          *)
(* otherwise dst receives mem[fail].                                       *)
C13_Container == PMem[PArg(1)].V

C13_Ix == PMem[PArg(2)].V

C13_Length ==
    CASE Ran("Idxs") -> Len(C13_Container)
      [] Ran("IdxL") -> Len(C13_Container)
      [] Ran("Idxp") -> 2
      [] Ran("IdxT") -> C13_Container.len

C13_Element ==
    CASE Ran("Idxs") -> Val(STRING_, <<C13_Container[C13_Ix + 1]>>)
      [] Ran("IdxL") -> C13_Container[C13_Ix + 1]
      [] Ran("Idxp") -> Elems(prev.heap, C13_Container)[C13_Ix + 1]
      [] Ran("IdxT") -> Elems(prev.heap, C13_Container)[C13_Ix + 1]

C13_IdxAsClaimed ==
    (prev.Opcode \in {"Idxs", "IdxL", "Idxp", "IdxT"} /\ PMem[PArg(2)].T = INT)
    => /\ ~Panicked
       /\ CMem[PArg(0)] = IF 0 <= C13_Ix /\ C13_Ix < C13_Length
                          THEN C13_Element ELSE PMem[PArg(3)]

(* The elements of the tuple a Mkst or Mkmp reads.                         *)
SrcElems == Elems(prev.heap, PMem[PArg(1)].V)

(* C14 (as claimed): after Mkst dst, src, mem[dst] is ERROR-tagged if some *)
(* element of the tuple mem[src] has a tag in neither [NULL, PAIR) nor     *)
(* [LB_ENUMS, Ub_enums), and otherwise the SET of the tuple's elements.    *)
C14_MkstAsClaimed ==
    Ran("Mkst")
    => IF \E i \in DOMAIN SrcElems : ~Admissible(SrcElems[i])
       THEN CMem[PArg(0)].T = ERROR
       ELSE CMem[PArg(0)] = Val(SET, {SrcElems[i] : i \in DOMAIN SrcElems})

(* C15 (as claimed): after Mkmp dst, src, mem[dst] is the error reserved   *)
(* for a non-pair (the register before the last) if some element of the    *)
(* tuple is no PAIR, and the MAP of the pairs' keys to their values if     *)
(* every element is a PAIR with an admissible value.                       *)
C15_Key(i) == Elems(prev.heap, SrcElems[i].V)[1]

C15_Value(i) == Elems(prev.heap, SrcElems[i].V)[2]

C15_MkmpAsClaimed ==
    Ran("Mkmp")
    => /\ (\E i \in DOMAIN SrcElems : SrcElems[i].T # PAIR)
          => /\ CMem[PArg(0)].T = ERROR
             /\ CMem[PArg(0)] = PMem[That(PMem) - 1]
       /\ (\A i \in DOMAIN SrcElems :
              SrcElems[i].T = PAIR /\ Admissible(C15_Value(i)))
          => /\ CMem[PArg(0)].T = MAP
             /\ \A i \in DOMAIN SrcElems :
                   (\A j \in DOMAIN SrcElems : j > i => C15_Key(j) # C15_Key(i))
                   => [k |-> C15_Key(i), v |-> C15_Value(i)] \in CMem[PArg(0)].V
             /\ \A e \in CMem[PArg(0)].V :
                   \E i \in DOMAIN SrcElems : e.k = C15_Key(i) /\ e.v = C15_Value(i)

(* C16: Strc dst, tag, f0..fk leaves in dst a value of that tag whose      *)
(* payload is [mem[f0], ..., mem[fk]].  For a struct of type Ub_enums + n  *)
(* with as many fields as the label list registered for n, IxZl out,       *)
(* strct, r with mem[r] = LABEL l writes field i to out for the position   *)
(* i of l in that list, and IxZn out, strct, i writes field i; when the    *)
(* struct was built by the Strc before, that field is mem[fi].             *)
C16_Fields == Elems(prev.heap, PMem[PArg(1)].V)

C16_Labels == StructLabels[PMem[PArg(1)].T - Ub_enums + 1]

C16_IsStruct ==
    /\ PMem[PArg(1)].T - Ub_enums \in 0..(Len(StructLabels) - 1)
    /\ Len(C16_Fields) = Len(C16_Labels)

C16_Wrote(i) ==
    /\ ~Panicked
    /\ Act.loc = prev.loc + 1
    /\ CMem[PArg(0)] = C16_Fields[i]
    /\ (prev.loc = 1 /\ Code[prev.vm][0].Opcode = "Strc")
       => CMem[PArg(0)] = PMem[A(Code[prev.vm][0].Args, i + 1)]

C16_StructFieldByLabel ==
    /\ Ran("Strc") =>
          /\ ~Panicked
          /\ CMem[PArg(0)].T = PArg(1)
          /\ Elems(heap, CMem[PArg(0)].V)
                = [i \in 1..(Len(prev.Args) - 2) |-> PMem[PArg(i + 1)]]
    /\ (Ran("IxZl") /\ C16_IsStruct /\ PMem[PArg(2)].T = LABEL) =>
          \A i \in DOMAIN C16_Labels :
             C16_Labels[i] = PMem[PArg(2)].V => C16_Wrote(i)
    /\ (Ran("IxZn") /\ C16_IsStruct /\ PArg(2) < Len(C16_Fields)) =>
          C16_Wrote(PArg(2) + 1)

C16_Witness ==
    /\ Ran("IxZl") /\ prev.loc = 1
    /\ Code["main"][0] = Op("Strc", <<20, Ub_enums, 7, 8>>)
    /\ PMem[PArg(2)] = Val(LABEL, 6)
    /\ CMem[PArg(0)] = Val(INT, 7)

----------------------------------------------------------------------------
(* Building the struct resolver: from the empty MapResolver of BlankVm,    *)
(* vm.StructResolve = vm.StructResolve.Add(structNumber, labels), until an *)
(* Add panics.  No VM runs; prev records the last call and the label lists *)
(* registered so far.                                                      *)

MaxStructs == 3
MaxLabels == 2

LabelNumbers == {5, 6}

NoVm ==
    /\ Mem = <<>> /\ callstack = <<>> /\ Code = <<>>
    /\ LambdaFactories = <<>> /\ heap = <<>> /\ runs = <<>>
    /\ Tokens = <<>> /\ vmToAdd = <<>> /\ schemes = <<>>
    /\ FunctionTable = <<>> /\ FunctionTreeMap = <<>>

InitResolver ==
    /\ NoVm
    /\ StructResolve = <<>>
    /\ prev = [Opcode |-> "BlankVm", ok |-> TRUE, registered |-> <<>>]

StructAdd ==
    /\ prev.ok
    /\ Len(StructResolve) < MaxStructs
    /\ \E structNumber \in 0..MaxStructs, labels \in Seqs(LabelNumbers, MaxLabels) :
          LET r == Add(StructResolve, structNumber, labels)
          IN /\ StructResolve' = r.mr
             /\ prev' = [Opcode |-> "Add", ok |-> r.ok,
                         structNumber |-> structNumber, labels |-> labels,
                         StructResolve |-> StructResolve,
                         registered |-> IF r.ok THEN Append(prev.registered, labels)
                                        ELSE prev.registered]
    /\ UNCHANGED <<Mem, callstack, Code, LambdaFactories, heap, runs, Tokens, vmToAdd,
                   schemes, FunctionTable, FunctionTreeMap>>

SpecResolver == InitResolver /\ [][StructAdd]_vars

(* C17: an Add succeeds exactly when its struct number is the number of    *)
(* structs registered before it; after successful Adds, Resolve(n, l) of a *)
(* registered struct n is a position of l in the label list registered for *)
(* n (the position, when the labels are distinct) and -1 when l is not in  *)
(* that list; and an Add leaves the answers for every earlier struct as    *)
(* they were.                                                              *)
C17_Position(n, l) == Resolve(StructResolve, n, l)

C17_Resolver ==
    /\ Len(StructResolve) = Len(prev.registered)
    /\ Ran("Add") =>
          /\ prev.ok <=> prev.structNumber = Len(prev.StructResolve)
          /\ prev.ok => prev.registered[prev.structNumber + 1] = prev.labels
          /\ \A n \in 0..(Len(prev.StructResolve) - 1) : \A l \in 0..9 :
                C17_Position(n, l) = Resolve(prev.StructResolve, n, l)
    /\ \A n \in 0..(Len(prev.registered) - 1) : \A l \in 0..9 :
          LET labels == prev.registered[n + 1]
          IN /\ C17_Position(n, l).ok
             /\ IF \E i \in DOMAIN labels : labels[i] = l
                THEN /\ C17_Position(n, l).ix \in 0..(Len(labels) - 1)
                     /\ labels[C17_Position(n, l).ix + 1] = l
                ELSE C17_Position(n, l).ix = -1

C17_Witness ==
    /\ Ran("Add") /\ prev.ok
    /\ prev.registered = << <<5, 6>>, <<6, 5>> >>
    /\ C17_Position(0, 6).ix = 1
    /\ C17_Position(1, 6).ix = 0
    /\ C17_Position(1, 7).ix = -1

----------------------------------------------------------------------------
(* Vm.add: splicing the code, tokens and lambda factories of another VM    *)
(* onto this one.  Code and LambdaFactories are arrays from 0, Tokens a    *)
(* list.                                                                   *)

(* The operand kinds of the opcodes the spliced code uses, by position.    *)
OPERANDS ==
    [Halt |-> <<>>,
     Jmp  |-> <<"loc">>,
     Jsr  |-> <<"loc">>,
     Call |-> <<"loc", "mem", "mem", "mem">>,
     Qtru |-> <<"mem", "loc">>,
     Qtyp |-> <<"mem", "typ", "loc">>,
     Thnk |-> <<"dst", "loc">>,
     Asgm |-> <<"dst", "mem">>,
     Mkfn |-> <<"dst", "lfc">>,
     Mker |-> <<"dst", "mem", "tok">>]

(* len of an array from 0, and append(f, g...).                            *)
Size(f) == Cardinality(DOMAIN f)

Concat(f, g) ==
    [i \in 0..(Size(f) + Size(g) - 1) |-> IF i < Size(f) THEN f[i] ELSE g[i - Size(f)]]

FromSeq(q) == [i \in 0..(Len(q) - 1) |-> q[i + 1]]

(* What the body of add's loop does to the operands of v: with more than   *)
(* one operand, the last is moved by the base of its kind's table.         *)
Relocated(v, start, tokStart, lfStart) ==
    LET last == Len(v.Args)
        kind == OPERANDS[v.Opcode][last]
    IN IF last > 1 /\ kind \in {"loc", "tok", "lfc"}
       THEN [v EXCEPT !.Args[last] =
               @ + CASE kind = "loc" -> start
                     [] kind = "tok" -> tokStart
                     [] kind = "lfc" -> lfStart]
       ELSE v

MaxAddCode == 2

AddInstrs ==
    {Op("Halt", <<>>), Op("Jmp", <<1>>), Op("Jsr", <<0>>), Op("Call", <<0, 12, 13, 3>>),
     Op("Qtru", <<0, 1>>), Op("Qtyp", <<1, INT, 1>>), Op("Thnk", <<12, 1>>),
     Op("Asgm", <<12, 3>>), Op("Mkfn", <<12, 0>>), Op("Mker", <<12, 9, 0>>)}

InitAdd ==
    /\ \E n \in 0..MaxAddCode, t \in 0..2, f \in 0..1, code \in Seqs(AddInstrs, MaxAddCode) :
          /\ Code = [main |-> [l \in 0..(n - 1) |-> Op("Halt", <<>>)]]
          /\ Tokens = SubSeq(<<"tok0", "tok1">>, 1, t)
          /\ LambdaFactories = FromSeq(SubSeq(<<TheFactory>>, 1, f))
          /\ vmToAdd = [Code |-> FromSeq(code), Tokens |-> <<"tok2">>,
                        LambdaFactories |-> FromSeq(<<SnapFactory>>)]
    /\ Mem = <<>> /\ callstack = <<>> /\ heap = <<>> /\ runs = <<>>
    /\ StructResolve = <<>> /\ schemes = <<>>
    /\ FunctionTable = <<>> /\ FunctionTreeMap = <<>>
    /\ prev = [Opcode |-> "BlankVm"]

(* vm.add(vmToAdd).  The operations are shared pointers: the relocation    *)
(* shows in vmToAdd.Code too.                                              *)
VmAdd ==
    /\ Ran("BlankVm")
    /\ LET start    == Size(Code["main"])
           tokStart == Len(Tokens)
           lfStart  == Size(LambdaFactories)
           moved    == [j \in DOMAIN vmToAdd.Code |->
                          Relocated(vmToAdd.Code[j], start, tokStart, lfStart)]
       IN /\ Code' = [Code EXCEPT !["main"] = Concat(@, moved)]
          /\ Tokens' = Tokens \o vmToAdd.Tokens
          /\ LambdaFactories' = Concat(LambdaFactories, vmToAdd.LambdaFactories)
          /\ vmToAdd' = [vmToAdd EXCEPT !.Code = moved]
    /\ prev' = [Opcode |-> "add", Code |-> Code, Tokens |-> Tokens,
                LambdaFactories |-> LambdaFactories, vmToAdd |-> vmToAdd]
    /\ UNCHANGED <<Mem, callstack, heap, runs, StructResolve, schemes,
                   FunctionTable, FunctionTreeMap>>

SpecAdd == InitAdd /\ [][VmAdd]_vars

(* C18 (as claimed): after add(other), the receiver's code is its old code *)
(* followed by other's instructions, in which every operand of kind loc,   *)
(* tok or lfc, at any position, is the original plus the length the        *)
(* receiver's code, tokens or lambda factories had before, and every other *)
(* operand is unchanged.                                                   *)
C18_Base(kind) ==
    CASE kind = "loc" -> Size(prev.Code["main"])
      [] kind = "tok" -> Len(prev.Tokens)
      [] kind = "lfc" -> Size(prev.LambdaFactories)
      [] OTHER -> 0

C18_AddAsClaimed ==
    Ran("add")
    => /\ Size(Code["main"]) = Size(prev.Code["main"]) + Size(prev.vmToAdd.Code)
       /\ \A j \in DOMAIN prev.vmToAdd.Code :
             LET old == prev.vmToAdd.Code[j]
                 new == Code["main"][Size(prev.Code["main"]) + j]
             IN /\ new.Opcode = old.Opcode
                /\ Len(new.Args) = Len(old.Args)
                /\ \A i \in DOMAIN old.Args :
                      new.Args[i] = old.Args[i] + C18_Base(OPERANDS[old.Opcode][i])

----------------------------------------------------------------------------
(* The compiler's typeschemes (source/compiler/typeschemes.go).  A scheme  *)
(* is a record of its Go type (kind) and its content: the type number n of *)
(* a simpleType, the tag of a blingType, the elements ts of an             *)
(* alternateType, finiteTupleType or listType, and for a typedTupleType    *)
(* the elements ts of its alternateType t.                                 *)

Scheme(kind, n, tag, ts) == [kind |-> kind, n |-> n, tag |-> tag, ts |-> ts]

tp(t) == Scheme("simpleType", t, "", <<>>)

bling(tag) == Scheme("blingType", 0, tag, <<>>)

(* The bling tags in use, in the order of Go's < on strings.               *)
BlingTags == <<"by", "to">>

(* t.tag < u.tag, t.tag == u.tag or neither, as blingType.compare tells    *)
(* them apart.                                                             *)
blingCompare(t, u) ==
    LET rank(x) == CHOOSE i \in DOMAIN BlingTags : BlingTags[i] = x
    IN IF rank(t.tag) < rank(u.tag) THEN -1
       ELSE IF t.tag = u.tag THEN 0 ELSE 1

(* A comparison of simple types that tells only greater from not greater.  *)
simpleCompareGreater(t, u) == IF t.n > u.n THEN 1 ELSE 0

(* simpleType.compare on a simpleType: int(t) - int(u).                    *)
simpleCompare(t, u) == t.n - u.n

RECURSIVE compare(_, _), compareElements(_, _, _)

(* The loop of the three list-like compares, from element i on.            *)
compareElements(ts, us, i) ==
    IF i > Len(ts) THEN 0
    ELSE IF compare(ts[i], us[i]) # 0 THEN compare(ts[i], us[i])
    ELSE compareElements(ts, us, i + 1)

(* t.compare(u): the method of t's type, switching on the type of u.       *)
compare(t, u) ==
    LET sameKind(below) ==
           IF u.kind \in below THEN 1
           ELSE IF u.kind # t.kind THEN -1
           ELSE IF Len(t.ts) # Len(u.ts) THEN Len(t.ts) - Len(u.ts)
           ELSE compareElements(t.ts, u.ts, 1)
    IN CASE t.kind = "simpleType" ->
               IF u.kind = "simpleType" THEN simpleCompare(t, u) ELSE -1
         [] t.kind = "alternateType" -> sameKind({"simpleType"})
         [] t.kind = "finiteTupleType" -> sameKind({"simpleType", "alternateType"})
         [] t.kind = "typedTupleType" -> sameKind({"simpleType", "finiteTupleType"})
         [] t.kind = "blingType" ->
               IF u.kind \in {"simpleType", "finiteTupleType", "typedTupleType"} THEN 1
               ELSE IF u.kind = "blingType" THEN blingCompare(t, u) ELSE -1
         [] t.kind = "listType" ->
               sameKind({"simpleType", "finiteTupleType", "typedTupleType", "blingType"})

(* The schemes compared: the simple and bling schemes, the four list-like  *)
(* kinds over up to MaxSchemeLen of those, and one further level of        *)
(* nesting around the shorter of these.                                    *)
MaxSchemeLen == 2

ListKinds == {"alternateType", "finiteTupleType", "typedTupleType", "listType"}

Over(S, n) == {Scheme(k, 0, "", ts) : k \in ListKinds, ts \in Seqs(S, n)}

Atoms == {tp(INT), tp(BOOL)} \cup {bling(BlingTags[i]) : i \in DOMAIN BlingTags}

Schemes == Atoms \cup Over(Atoms, MaxSchemeLen) \cup Over(Atoms \cup Over(Atoms, 1), 1)

(* The schemes compared three at a time: nested at most once.              *)
SmallSchemes == Atoms \cup Over(Atoms, 1)

InitCompare ==
    /\ Mem = <<>> /\ callstack = <<>> /\ Code = <<>>
    /\ LambdaFactories = <<>> /\ heap = <<>> /\ runs = <<>>
    /\ Tokens = <<>> /\ vmToAdd = <<>> /\ StructResolve = <<>>
    /\ FunctionTable = <<>> /\ FunctionTreeMap = <<>>
    /\ schemes \in (Schemes \X Schemes) \cup (SmallSchemes \X SmallSchemes \X SmallSchemes)
    /\ prev = [Opcode |-> "typeScheme"]

(* The compiler compares the two schemes, each as the receiver in turn.    *)
Compare ==
    /\ Ran("typeScheme") /\ Len(schemes) = 2
    /\ prev' = [Opcode |-> "compare",
                st |-> compare(schemes[1], schemes[2]),
                ts |-> compare(schemes[2], schemes[1])]
    /\ UNCHANGED <<Mem, callstack, Code, LambdaFactories, heap, runs, StructResolve,
                   Tokens, vmToAdd, schemes, FunctionTable, FunctionTreeMap>>

(* The compiler compares three schemes pairwise, as a sort does.            *)
CompareChain ==
    /\ Ran("typeScheme") /\ Len(schemes) = 3
    /\ prev' = [Opcode |-> "compareChain",
                rs |-> compare(schemes[1], schemes[2]),
                st |-> compare(schemes[2], schemes[3]),
                rt |-> compare(schemes[1], schemes[3])]
    /\ UNCHANGED <<Mem, callstack, Code, LambdaFactories, heap, runs, StructResolve,
                   Tokens, vmToAdd, schemes, FunctionTable, FunctionTreeMap>>

SpecCompare == InitCompare /\ [][Compare \/ CompareChain]_vars

(* C19: for all typeschemes s and t, compare(s, t) == 0 exactly when       *)
(* compare(t, s) == 0.                                                     *)
C19_ZeroSymmetric == Ran("compare") => ((prev.st = 0) <=> (prev.ts = 0))

(* Two distinct simple schemes inside equal-length nested schemes have     *)
(* been compared and found different in both directions.                   *)
C19_Witness ==
    /\ Ran("compare")
    /\ schemes[1].kind = "listType" /\ schemes[2].kind = "listType"
    /\ Len(schemes[1].ts) = 1 /\ Len(schemes[2].ts) = 1
    /\ schemes[1].ts[1].kind = "alternateType" /\ schemes[2].ts[1].kind = "alternateType"
    /\ schemes[1].ts[1].ts = <<tp(INT)>> /\ schemes[2].ts[1].ts = <<tp(BOOL)>>
    /\ prev.st # 0 /\ prev.ts # 0

(* C20: compare is antisymmetric: for all typeschemes s and t of any two   *)
(* kinds, compare(s, t) < 0 exactly when compare(t, s) > 0.                *)
C20_AntisymmetricAsClaimed == Ran("compare") => ((prev.st < 0) <=> (prev.ts > 0))

(* C21: compare is transitive: for all typeschemes r, s, t, if             *)
(* compare(r, s) < 0 and compare(s, t) < 0 then compare(r, t) < 0.         *)
C21_TransitiveAsClaimed ==
    Ran("compareChain") => ((prev.rs < 0 /\ prev.st < 0) => prev.rt < 0)

(* The place of each kind in the stated order simple < alternate <         *)
(* finite_tuple < typed_tuple < bling < list.                              *)
C22_KindRank(t) ==
    CASE t.kind = "simpleType" -> 1
      [] t.kind = "alternateType" -> 2
      [] t.kind = "finiteTupleType" -> 3
      [] t.kind = "typedTupleType" -> 4
      [] t.kind = "blingType" -> 5
      [] t.kind = "listType" -> 6

(* C22: schemes of two different kinds are ordered by kind, simple <       *)
(* alternate < finite_tuple < typed_tuple < bling < list, whichever of the *)
(* two is the receiver of compare and whatever their contents.             *)
C22_KindOrderAsClaimed ==
    (Ran("compare") /\ schemes[1].kind # schemes[2].kind) =>
        IF C22_KindRank(schemes[1]) < C22_KindRank(schemes[2])
        THEN prev.st < 0 /\ prev.ts > 0
        ELSE prev.st > 0 /\ prev.ts < 0

----------------------------------------------------------------------------
(* Set operations on alternates.  An alternateType is a slice of schemes;  *)
(* union and intersect take and return the element sequences.              *)

RECURSIVE intersect(_, _), union(_, _)

(* vL.intersect(wL): the merge loop, on what is left of vL and wL.         *)
intersect(vL, wL) ==
    IF vL = <<>> \/ wL = <<>> THEN <<>>
    ELSE LET comp == compare(Head(vL), Head(wL))
         IN IF comp = 0 THEN <<Head(vL)>> \o intersect(Tail(vL), Tail(wL))
            ELSE IF comp < 0 THEN intersect(Tail(vL), wL)
            ELSE intersect(vL, Tail(wL))

(* vL.union(wL): the merge loop, on what is left of vL and wL.             *)
union(vL, wL) ==
    IF vL = <<>> /\ wL = <<>> THEN <<>>
    ELSE IF vL = <<>> THEN <<Head(wL)>> \o union(vL, Tail(wL))
    ELSE IF wL = <<>> THEN <<Head(vL)>> \o union(Tail(vL), wL)
    ELSE LET comp == compare(Head(vL), Head(wL))
         IN IF comp = 0 THEN <<Head(vL)>> \o union(Tail(vL), Tail(wL))
            ELSE IF comp < 0 THEN <<Head(vL)>> \o union(Tail(vL), wL)
            ELSE <<Head(wL)>> \o union(vL, Tail(wL))

(* An alternate as the compiler keeps it: every earlier element compares   *)
(* below every later one, so no two elements compare equal.                *)
Sorted(ts) == \A i, j \in DOMAIN ts : i < j => compare(ts[i], ts[j]) < 0

(* The elements the alternates are built from, and the alternates.         *)
Elements == Atoms \cup Over({tp(INT)}, 1)

Alternates == {ts \in Seqs(Elements, MaxSchemeLen) : Sorted(ts)}

InitAlternate ==
    /\ Mem = <<>> /\ callstack = <<>> /\ Code = <<>>
    /\ LambdaFactories = <<>> /\ heap = <<>> /\ runs = <<>>
    /\ Tokens = <<>> /\ vmToAdd = <<>> /\ StructResolve = <<>>
    /\ FunctionTable = <<>> /\ FunctionTreeMap = <<>>
    /\ schemes \in Alternates \X Alternates
    /\ prev = [Opcode |-> "typeScheme"]

(* The compiler merges the two alternates, each as the receiver in turn.   *)
Union ==
    /\ Ran("typeScheme")
    /\ prev' = [Opcode |-> "union", x |-> union(schemes[1], schemes[2]),
                y |-> union(schemes[2], schemes[1])]
    /\ UNCHANGED <<Mem, callstack, Code, LambdaFactories, heap, runs, StructResolve,
                   Tokens, vmToAdd, schemes, FunctionTable, FunctionTreeMap>>

Intersect ==
    /\ Ran("typeScheme")
    /\ prev' = [Opcode |-> "intersect", x |-> intersect(schemes[1], schemes[2])]
    /\ UNCHANGED <<Mem, callstack, Code, LambdaFactories, heap, runs, StructResolve,
                   Tokens, vmToAdd, schemes, FunctionTable, FunctionTreeMap>>

SpecAlternate == InitAlternate /\ [][Union \/ Intersect]_vars

(* The elements of an alternate.  compare is 0 on two schemes exactly when *)
(* they are the same scheme, so elements up to compare == 0 are elements.  *)
C23_Elems(ts) == {ts[i] : i \in DOMAIN ts}

(* C23: for sorted, duplicate-free alternates a and b, union(a, b) is      *)
(* sorted, holds no two elements that compare equal, holds every element   *)
(* of a and of b, and holds the same elements as union(b, a).              *)
C23_UnionAsClaimed ==
    Ran("union") =>
        /\ \A i \in 1..(Len(prev.x) - 1) : compare(prev.x[i], prev.x[i + 1]) < 0
        /\ \A i, j \in DOMAIN prev.x : i # j => compare(prev.x[i], prev.x[j]) # 0
        /\ C23_Elems(schemes[1]) \cup C23_Elems(schemes[2]) \subseteq C23_Elems(prev.x)
        /\ C23_Elems(prev.x) = C23_Elems(prev.y)

(* C24: for sorted, duplicate-free alternates a and b, every element of    *)
(* intersect(a, b) is an element of a and of b, and every scheme that      *)
(* occurs in both a and b occurs in intersect(a, b).                       *)
C24_IntersectAsClaimed ==
    Ran("intersect") =>
        C23_Elems(prev.x) = C23_Elems(schemes[1]) \cap C23_Elems(schemes[2])

----------------------------------------------------------------------------
(* Tuple lengths and the types at an index of a tuple.                     *)

RECURSIVE lengths(_), recursiveTypesAtIndex(_, _)

(* lengths(t): the set of lengths result.  The alternate case stops at the *)
(* first alternative that brings in -1; the finite tuple case adds every   *)
(* length of the first column to every length of the remaining columns.    *)
lengths(t) ==
    LET RECURSIVE alternatives(_, _)
        alternatives(i, result) ==
            IF i > Len(t.ts) \/ -1 \in result THEN result
            ELSE alternatives(i + 1, result \cup lengths(t.ts[i]))
    IN CASE t.kind = "simpleType" -> {1}
         [] t.kind = "typedTupleType" -> {-1}
         [] t.kind = "alternateType" -> alternatives(1, {})
         [] t.kind = "finiteTupleType" ->
               IF Len(t.ts) = 0 THEN {0}
               ELSE {j + k : j \in lengths(t.ts[1]),
                             k \in lengths(Scheme("finiteTupleType", 0, "", Tail(t.ts)))}

(* recursiveTypesAtIndex(t, ix): the set of pairs <<resultTypes,           *)
(* resultSet>> the call can return.  The finite tuple case ranges over     *)
(* resultSet, a Go map, while adding to it: every entry present when the   *)
(* loop starts is visited, an entry added during the loop is visited or    *)
(* skipped as the runtime chooses.                                         *)
recursiveTypesAtIndex(t, ix) ==
    LET RECURSIVE alternatives(_, _), range(_, _, _, _)
        alternatives(i, results) ==
            IF i > Len(t.ts) THEN results
            ELSE alternatives(i + 1,
                     {<<union(r[1], new[1]), r[2] \cup new[2]>> :
                          r \in results, new \in recursiveTypesAtIndex(t.ts[i], ix)})
        rest == Scheme("finiteTupleType", 0, "", Tail(t.ts))
        range(resultTypes, resultSet, visited, atStart) ==
            (IF atStart \subseteq visited THEN {<<resultTypes, resultSet>>} ELSE {})
            \cup UNION {UNION {range(union(resultTypes, new[1]), resultSet \cup new[2],
                                     visited \cup {jx}, atStart) :
                                  new \in recursiveTypesAtIndex(rest, ix - jx)} :
                           jx \in resultSet \ visited}
    IN CASE t.kind = "simpleType" ->
               {<<IF ix = 0 THEN union(<<>>, <<t>>) ELSE <<>>, {1}>>}
         [] t.kind = "typedTupleType" -> {<<union(<<>>, t.ts), {ix}>>}
         [] t.kind = "alternateType" -> alternatives(1, {<< <<>>, {} >>})
         [] t.kind = "finiteTupleType" ->
               IF Len(t.ts) = 0 THEN {<< <<>>, {} >>}
               ELSE UNION {range(first[1], first[2], {}, first[2]) :
                               first \in recursiveTypesAtIndex(t.ts[1], ix)}

(* The schemes measured: simple schemes, alternates and typed tuples of    *)
(* simple schemes, and finite tuples of all those, nested once more.       *)
MaxIndex == 2

Tuples(S, n) == {Scheme("finiteTupleType", 0, "", ts) : ts \in Seqs(S, n)}

Columns ==
    {tp(INT), tp(BOOL)}
    \cup {Scheme(k, 0, "", ts) : k \in {"alternateType", "typedTupleType"},
                                  ts \in {<<tp(INT)>>, <<tp(BOOL)>>, <<tp(INT), tp(BOOL)>>}}

TupleSchemes ==
    Columns \cup Tuples(Columns \cup Tuples(Columns, 2), MaxSchemeLen)
    \cup {Scheme("alternateType", 0, "", <<t, u>>) :
              t \in Tuples(Columns, 1), u \in Tuples(Columns, 2)}

InitTuple ==
    /\ Mem = <<>> /\ callstack = <<>> /\ Code = <<>>
    /\ LambdaFactories = <<>> /\ heap = <<>> /\ runs = <<>>
    /\ Tokens = <<>> /\ vmToAdd = <<>> /\ StructResolve = <<>>
    /\ FunctionTable = <<>> /\ FunctionTreeMap = <<>>
    /\ schemes \in {<<t>> : t \in TupleSchemes}
    /\ prev = [Opcode |-> "typeScheme"]

Lengths ==
    /\ Ran("typeScheme")
    /\ prev' = [Opcode |-> "lengths", x |-> lengths(schemes[1])]
    /\ UNCHANGED <<Mem, callstack, Code, LambdaFactories, heap, runs, StructResolve,
                   Tokens, vmToAdd, schemes, FunctionTable, FunctionTreeMap>>

(* typesAtIndex(t, ix): the types of one of the results the recursive call *)
(* can return.                                                             *)
TypesAtIndex ==
    /\ Ran("typeScheme")
    /\ \E ix \in 0..MaxIndex : \E result \in recursiveTypesAtIndex(schemes[1], ix) :
           prev' = [Opcode |-> "typesAtIndex", ix |-> ix, x |-> result[1]]
    /\ UNCHANGED <<Mem, callstack, Code, LambdaFactories, heap, runs, StructResolve,
                   Tokens, vmToAdd, schemes, FunctionTable, FunctionTreeMap>>

SpecTuple == InitTuple /\ [][Lengths \/ TypesAtIndex]_vars

RECURSIVE C25_Unbounded(_), C25_CanTake(_, _), C26_At(_, _)

(* t can be a tuple of unbounded length: it is a typed tuple or has one    *)
(* among its alternatives or among the components of a finite tuple.       *)
C25_Unbounded(t) ==
    CASE t.kind = "simpleType" -> FALSE
      [] t.kind = "typedTupleType" -> TRUE
      [] OTHER -> \E i \in DOMAIN t.ts : C25_Unbounded(t.ts[i])

(* A value described by t can have n elements once flattened.              *)
C25_CanTake(t, n) ==
    CASE t.kind = "simpleType" -> n = 1
      [] t.kind = "typedTupleType" -> n >= 0
      [] t.kind = "alternateType" -> \E i \in DOMAIN t.ts : C25_CanTake(t.ts[i], n)
      [] t.kind = "finiteTupleType" ->
            IF Len(t.ts) = 0 THEN n = 0
            ELSE \E j \in 0..n :
                    /\ C25_CanTake(t.ts[1], j)
                    /\ C25_CanTake(Scheme("finiteTupleType", 0, "", Tail(t.ts)), n - j)

(* C25: lengths(t) is non-empty, holds -1 exactly when t can be a tuple of *)
(* unbounded length, and holds no other length that t cannot take.         *)
C25_LengthsAsClaimed ==
    Ran("lengths") =>
        /\ prev.x # {}
        /\ (-1 \in prev.x) <=> C25_Unbounded(schemes[1])
        /\ \A n \in prev.x \ {-1} : C25_CanTake(schemes[1], n)

(* The schemes that can occur at position i of a value described by t once *)
(* nested finite tuples are flattened.                                     *)
C26_At(t, i) ==
    CASE t.kind = "simpleType" -> IF i = 0 THEN {t} ELSE {}
      [] t.kind = "typedTupleType" -> IF i >= 0 THEN C23_Elems(t.ts) ELSE {}
      [] t.kind = "alternateType" -> UNION {C26_At(t.ts[k], i) : k \in DOMAIN t.ts}
      [] t.kind = "finiteTupleType" ->
            IF Len(t.ts) = 0 THEN {}
            ELSE LET rest == Scheme("finiteTupleType", 0, "", Tail(t.ts))
                 IN C26_At(t.ts[1], i)
                    \cup UNION {C26_At(rest, i - j) :
                                   j \in {j \in 0..i : C25_CanTake(t.ts[1], j)}}

(* C26: typesAtIndex(t, i) holds exactly the schemes that can occur at     *)
(* position i of a value described by t, whichever order the map of        *)
(* lengths is ranged over.                                                 *)
C26_TypesAtIndexAsClaimed ==
    Ran("typesAtIndex") => C23_Elems(prev.x) = C26_At(schemes[1], prev.ix)

----------------------------------------------------------------------------
(* The dispatch tree builder (source/initializer/initializer.go).  A       *)
(* function is its number in the function table (0 for nil) and its Sig, a *)
(* sequence of parameters [VarName, VarType]; a tree node is               *)
(* [Fn, Branch], Branch a sequence of [TypeName, Node].  Indices into Sig  *)
(* and Branch count from 0, as in the source.                              *)

FnTreeNode(fn, branch) == [Fn |-> fn, Branch |-> branch]

(* tree.Index(typeName): the place of the branch of that name, or -1.      *)
Index(tree, typeName) ==
    IF \E i \in DOMAIN tree.Branch : tree.Branch[i].TypeName = typeName
    THEN (CHOOSE i \in DOMAIN tree.Branch :
              /\ tree.Branch[i].TypeName = typeName
              /\ \A j \in 1..(i - 1) : tree.Branch[j].TypeName # typeName) - 1
    ELSE -1

(* tree.AddOrReplace(typeName, node): the branch of that name now leads to *)
(* node; a new branch goes last.                                           *)
AddOrReplace(tree, typeName, node) ==
    IF Index(tree, typeName) = -1
    THEN [tree EXCEPT !.Branch = Append(@, [TypeName |-> typeName, Node |-> node])]
    ELSE [tree EXCEPT !.Branch[Index(tree, typeName) + 1].Node = node]

(* TypeSystem.PointsTo(a, b): a is a proper subtype of b.                  *)
PointsTo(a, b) == a \in {"int", "string", "bool", "float"} /\ b = "single"

(* A bling parameter is known by its word, any other by its type.          *)
TypeOrBling(param) == IF param.VarType = "bling" THEN param.VarName ELSE param.VarType

RECURSIVE overlayTree(_, _, _), addToTree(_, _, _)

addToTree(tree, fn, argumentNumber) ==
    IF argumentNumber >= Len(fn.Sig)
    THEN IF Index(tree, "") # -1 THEN tree
         ELSE AddOrReplace(tree, "", FnTreeNode(fn.Number, <<>>))
    ELSE LET param == fn.Sig[argumentNumber + 1]
             tupleStop == IF argumentNumber + 1 < Len(fn.Sig)
                          THEN TypeOrBling(fn.Sig[argumentNumber + 2]) ELSE ""
             stopped ==
                 IF param.VarType # "tuple" THEN tree
                 ELSE IF Index(tree, tupleStop) # -1
                 THEN [tree EXCEPT !.Branch[Index(tree, tupleStop) + 1].Node =
                                       addToTree(@, fn, argumentNumber + 2)]
                 ELSE AddOrReplace(tree, tupleStop,
                          IF tupleStop = "" THEN FnTreeNode(fn.Number, <<>>)
                          ELSE addToTree(FnTreeNode(0, <<>>), fn, argumentNumber + 2))
             i == Index(stopped, TypeOrBling(param))
         IN IF i # -1
            THEN [stopped EXCEPT !.Branch[i + 1].Node = addToTree(@, fn, argumentNumber + 1)]
            ELSE AddOrReplace(stopped, TypeOrBling(param),
                     addToTree(FnTreeNode(0, <<>>), fn, argumentNumber + 1))

(* The loop over the branches ranges over the branches the node has when   *)
(* the loop starts; v.Node in the second overlay of a tuple branch is the  *)
(* node as it was before the first.                                        *)
overlayTree(tree, fn, argumentNumber) ==
    IF argumentNumber >= Len(fn.Sig)
    THEN IF Index(tree, "") # -1 THEN tree
         ELSE AddOrReplace(tree, "", FnTreeNode(fn.Number, <<>>))
    ELSE LET param == fn.Sig[argumentNumber + 1]
             isTuple == param.VarType = "tuple"
             tupleStop == IF argumentNumber < Len(fn.Sig) - 1
                          THEN TypeOrBling(fn.Sig[argumentNumber + 2]) ELSE ""
             continued ==
                 IF isTuple /\ Index(tree, "tuple") = -1
                 THEN AddOrReplace(tree, "tuple",
                          addToTree(FnTreeNode(0, <<>>), fn, argumentNumber))
                 ELSE tree
             stopped ==
                 IF isTuple /\ Index(continued, tupleStop) = -1
                 THEN AddOrReplace(continued, tupleStop,
                          addToTree(FnTreeNode(0, <<>>), fn, argumentNumber + 2))
                 ELSE continued
             RECURSIVE branches(_, _)
             branches(i, t) ==
                 IF i > Len(stopped.Branch) THEN t
                 ELSE LET v == t.Branch[i]
                      IN IF \/ v.TypeName = TypeOrBling(param)
                            \/ PointsTo(v.TypeName, param.VarType)
                         THEN branches(i + 1,
                                  [t EXCEPT !.Branch[i].Node =
                                       IF isTuple /\ PointsTo(v.TypeName, "tuple")
                                       THEN overlayTree(v.Node, fn, argumentNumber)
                                       ELSE overlayTree(v.Node, fn, argumentNumber + 1)])
                         ELSE branches(i + 1,
                                  AddOrReplace(t, TypeOrBling(param),
                                      addToTree(FnTreeNode(0, <<>>), fn,
                                                argumentNumber + 1)))
         IN branches(1, stopped)

(* The tree of one function without the overlays; only the paths.          *)
makeFunctionTreesAddOnly(v) ==
    LET RECURSIVE overloads(_, _)
        overloads(i, tree) ==
            IF i > Len(v) THEN tree
            ELSE overloads(i + 1, addToTree(tree, [Number |-> i, Sig |-> v[i]], 0))
    IN overloads(1, FnTreeNode(0, <<>>))

(* makeFunctionTrees, for the overloads v of one function: each overload   *)
(* is overlaid on the tree and then added to it.                           *)
makeFunctionTrees(v) ==
    LET RECURSIVE overloads(_, _)
        overloads(i, tree) ==
            IF i > Len(v) THEN tree
            ELSE LET fn == [Number |-> i, Sig |-> v[i]]
                 IN overloads(i + 1, addToTree(overlayTree(tree, fn, 0), fn, 0))
    IN overloads(1, FnTreeNode(0, <<>>))

(* The walk of the tree at a call: one argument at a time, down the first  *)
(* branch labelled with the argument's type or with a supertype of it,     *)
(* then to the end of the signature.  0 when there is no way down.         *)
RECURSIVE FindFunction(_, _)
FindFunction(tree, types) ==
    LET fits(i) == IF types = <<>> THEN tree.Branch[i].TypeName = ""
                   ELSE \/ tree.Branch[i].TypeName = Head(types)
                        \/ PointsTo(Head(types), tree.Branch[i].TypeName)
        first == CHOOSE i \in DOMAIN tree.Branch :
                     fits(i) /\ \A j \in 1..(i - 1) : ~fits(j)
    IN IF \A i \in DOMAIN tree.Branch : ~fits(i) THEN 0
       ELSE IF types = <<>> THEN tree.Branch[first].Node.Fn
       ELSE FindFunction(tree.Branch[first].Node, Tail(types))

(* The function tables built: one or two overloads of up to MaxSigLen      *)
(* parameters, no overload more specific than an earlier one.              *)
MaxSigLen == 2

Params ==
    {[VarName |-> "x", VarType |-> t] : t \in {"int", "string", "bool", "single", "tuple"}}
    \cup {[VarName |-> "to", VarType |-> "bling"]}

Specific(sig, other) ==
    /\ Len(sig) = Len(other)
    /\ \A i \in DOMAIN sig :
           \/ TypeOrBling(sig[i]) = TypeOrBling(other[i])
           \/ PointsTo(sig[i].VarType, other[i].VarType)

FunctionTables ==
    {v \in Seqs(Seqs(Params, MaxSigLen), 2) :
         Len(v) > 0 /\ (Len(v) = 2 => ~Specific(v[2], v[1]))}

InitTree ==
    /\ Mem = <<>> /\ callstack = <<>> /\ Code = <<>>
    /\ LambdaFactories = <<>> /\ heap = <<>> /\ runs = <<>>
    /\ Tokens = <<>> /\ vmToAdd = <<>> /\ StructResolve = <<>> /\ schemes = <<>>
    /\ FunctionTable \in FunctionTables
    /\ FunctionTreeMap = <<>>
    /\ prev = [Opcode |-> "makeFunctionTable"]

MakeFunctionTrees ==
    /\ Ran("makeFunctionTable")
    /\ FunctionTreeMap' = makeFunctionTrees(FunctionTable)
    /\ prev' = [Opcode |-> "makeFunctionTrees"]
    /\ UNCHANGED <<Mem, callstack, Code, LambdaFactories, heap, runs, StructResolve,
                   Tokens, vmToAdd, schemes, FunctionTable>>

SpecTree == InitTree /\ [][MakeFunctionTrees]_vars

(* The overloads foo(x int, y string) and foo(x single, y bool).           *)
C27_Foo ==
    << <<[VarName |-> "x", VarType |-> "int"], [VarName |-> "x", VarType |-> "string"]>>,
       <<[VarName |-> "x", VarType |-> "single"], [VarName |-> "x", VarType |-> "bool"]>> >>

(* A branch, and the end of a signature carrying overload n.               *)
C27_Branch(typeName, branches) ==
    [TypeName |-> typeName, Node |-> FnTreeNode(0, branches)]

C27_End(n) == [TypeName |-> "", Node |-> FnTreeNode(n, <<>>)]

(* C27: for foo(x int, y string) then foo(x single, y bool) the tree is    *)
(* int -> string -> overload 1, int -> bool -> overload 2 and              *)
(* single -> bool -> overload 2, so (INT, STRING) routes to overload 1 and *)
(* (INT, BOOL) and (FLOAT, BOOL) route to overload 2.                      *)
C27_DispatchTree ==
    (Ran("makeFunctionTrees") /\ FunctionTable = C27_Foo) =>
        /\ FunctionTreeMap =
               FnTreeNode(0,
                   << C27_Branch("int", << C27_Branch("string", <<C27_End(1)>>),
                                           C27_Branch("bool", <<C27_End(2)>>) >>),
                      C27_Branch("single", << C27_Branch("bool", <<C27_End(2)>>) >>) >>)
        /\ FindFunction(FunctionTreeMap, <<"int", "string">>) = 1
        /\ FindFunction(FunctionTreeMap, <<"int", "bool">>) = 2
        /\ FindFunction(FunctionTreeMap, <<"float", "bool">>) = 2

(* The tree of the two overloads has been built and routes (INT, BOOL) by  *)
(* the overlaid branch.                                                    *)
C27_Witness ==
    /\ Ran("makeFunctionTrees") /\ FunctionTable = C27_Foo
    /\ Index(FunctionTreeMap.Branch[1].Node, "bool") = 1
    /\ FindFunction(FunctionTreeMap, <<"int", "bool">>) = 2

(* The longest run of tuple labels followed.                               *)
MaxTupleRun == 2

(* The node reached from tree by following the labels one branch each, or  *)
(* a node of function -1 when a label has no branch.                       *)
RECURSIVE C28_Follow(_, _)
C28_Follow(tree, labels) ==
    IF labels = <<>> THEN tree
    ELSE IF Index(tree, Head(labels)) = -1 THEN FnTreeNode(-1, <<>>)
    ELSE C28_Follow(tree.Branch[Index(tree, Head(labels)) + 1].Node, Tail(labels))

(* The labels of the parameters from..to of a signature.                   *)
C28_Labels(sig, from, to) == [i \in 1..(to - from + 1) |-> TypeOrBling(sig[from + i - 1])]

(* The overload is reached at the node: the node carries it, or its end of *)
(* signature does.                                                         *)
C28_Reaches(node) ==
    \/ node.Fn = 1
    \/ C28_Follow(node, <<"">>).Fn = 1

(* C28: in the tree of a signature whose parameter k is its first tuple,   *)
(* the node after the first k parameters has a tuple branch and a branch   *)
(* for the tuple stop, and any number n >= 1 of tuple labels followed by   *)
(* the tuple stop and the rest of the signature reaches the overload.      *)
C28_TupleBranchesAsClaimed ==
    (Ran("makeFunctionTrees") /\ Len(FunctionTable) = 1) =>
        \A k \in DOMAIN FunctionTable[1] :
            LET sig == FunctionTable[1]
                node == C28_Follow(FunctionTreeMap, C28_Labels(sig, 1, k - 1))
                last == k = Len(sig)
                stop == IF last THEN "" ELSE TypeOrBling(sig[k + 1])
                rest == IF last THEN <<>> ELSE C28_Labels(sig, k + 2, Len(sig))
            IN (/\ sig[k].VarType = "tuple"
                /\ \A j \in 1..(k - 1) : sig[j].VarType # "tuple") =>
                   /\ Index(node, "tuple") # -1
                   /\ Index(node, stop) # -1
                   /\ \A n \in 1..MaxTupleRun :
                          C28_Reaches(C28_Follow(node,
                              [i \in 1..n |-> "tuple"] \o <<stop>> \o rest))

----------------------------------------------------------------------------
(* The guarded division and modulo the compiler emits, and the opcodes     *)
(* they run.  mc is the VM under construction: its Mem and its Code.       *)

(* reserve: a constant goes on the end of the registers.                   *)
reserve(mc, v) == [mc EXCEPT !.Mem = Concat(@, FromSeq(<<v>>))]

(* emit: an instruction goes on the end of the code.                       *)
emit(mc, oc, a) == [mc EXCEPT !.Code = Concat(@, FromSeq(<<Op(oc, a)>>))]

(* put: emit with a fresh register, reserved here, as the destination.     *)
put(mc, oc, a) == reserve(emit(mc, oc, <<Size(mc.Mem)>> \o a), ZeroValue)

(* The sequence of btDivideIntegers without the test of the divisor.       *)
btDivideIntegersUnguarded(mc, dest, a) ==
    emit(mc, "Divi", <<dest, A(a, 0), A(a, 2)>>)

btDivideIntegers(mc, dest, a) ==
    LET zero    == reserve(mc, Val(INT, 0))
        equi    == put(zero, "Equi", <<A(a, 2), That(zero.Mem)>>)
        qtru    == emit(equi, "Qtru", <<That(equi.Mem), Size(equi.Code) + 3>>)
        failure == reserve(qtru, ErrorValue("built/div/int"))
        asgm    == emit(failure, "Asgm", <<dest, That(failure.Mem)>>)
        jmp     == emit(asgm, "Jmp", <<Size(asgm.Code) + 2>>)
    IN emit(jmp, "Divi", <<dest, A(a, 0), A(a, 2)>>)

btModuloIntegers(mc, dest, a) ==
    LET zero    == reserve(mc, Val(INT, 0))
        equi    == put(zero, "Equi", <<A(a, 2), That(zero.Mem)>>)
        qtru    == emit(equi, "Qtru", <<That(equi.Mem), Size(equi.Code) + 3>>)
        failure == reserve(qtru, ErrorValue("built/mod"))
        asgm    == emit(failure, "Asgm", <<dest, That(failure.Mem)>>)
        jmp     == emit(asgm, "Jmp", <<Size(asgm.Code) + 2>>)
    IN emit(jmp, "Modi", <<dest, A(a, 0), A(a, 2)>>)

(* Go's x / y on ints, which truncates toward zero, and x % y.             *)
Quo(x, y) ==
    LET abs(n) == IF n < 0 THEN -n ELSE n
    IN IF (x < 0) = (y < 0) THEN abs(x) \div abs(y) ELSE -(abs(x) \div abs(y))

Rem(x, y) == x - y * Quo(x, y)

(* The three opcodes assert .V.(int) on both operands; / and % by zero is  *)
(* a run-time panic.                                                       *)
IntOp(oc, defined, result) ==
    /\ Fetch(oc)
    /\ IF /\ HasIntPayload(Mem[vm][A(args, 1)]) /\ HasIntPayload(Mem[vm][A(args, 2)])
          /\ defined
       THEN Store(A(args, 0), result) /\ FallThrough
       ELSE Panic /\ UNCHANGED Mem
    /\ Executed(oc)
    /\ UNCHANGED <<callstack, heap>> /\ Fixed

Equi == IntOp("Equi", TRUE, Val(BOOL, Mem[vm][A(args, 1)].V = Mem[vm][A(args, 2)].V))

Divi ==
    IntOp("Divi", Mem[vm][A(args, 2)].V # 0,
          Val(INT, Quo(Mem[vm][A(args, 1)].V, Mem[vm][A(args, 2)].V)))

Modi ==
    IntOp("Modi", Mem[vm][A(args, 2)].V # 0,
          Val(INT, Rem(Mem[vm][A(args, 1)].V, Mem[vm][A(args, 2)].V)))

(* Registers: 0..3 the constants; 4..9 INT -7, -1, 0, 2, 3, 10; 10 a zero  *)
(* value.                                                                  *)
DivideMem ==
    [r \in 0..10 |->
       CASE r \in 0..3 -> VmConstants[r + 1]
         [] r = 4 -> Val(INT, -7)
         [] r = 5 -> Val(INT, -1)
         [] r = 6 -> Val(INT, 0)
         [] r = 7 -> Val(INT, 2)
         [] r = 8 -> Val(INT, 3)
         [] r = 9 -> Val(INT, 10)
         [] OTHER -> ZeroValue]

(* A VM with the operands in place and no code, or one instruction, so     *)
(* far; it is not running.                                                 *)
InitDivide ==
    /\ \E code \in {<<>>, <<Op("Halt", <<>>)>>} :
          Code = [main |-> FromSeq(code), lambda |-> LambdaCode(Op("Ret", <<>>))]
    /\ Mem = [main |-> DivideMem, lambda |-> LambdaMem]
    /\ callstack = [main |-> <<>>, lambda |-> <<>>]
    /\ LambdaFactories = <<>> /\ heap = <<>> /\ StructResolve = <<>>
    /\ runs = <<>>
    /\ Tokens = <<>> /\ vmToAdd = <<>> /\ schemes = <<>>
    /\ FunctionTable = <<>> /\ FunctionTreeMap = <<>>
    /\ prev = [Opcode |-> "BlankVm"]

(* The compiler emits the sequence for dest and the operands a[0] and      *)
(* a[2], ends the code with Halt and runs the VM from the sequence's first *)
(* instruction.                                                            *)
Emitted(mc) ==
    /\ Ran("BlankVm")
    /\ Mem' = [Mem EXCEPT !.main = mc.Mem]
    /\ Code' = [Code EXCEPT !.main = emit(mc, "Halt", <<>>).Code]
    /\ runs' = <<Run("main", Size(Code.main), NoLambda)>>
    /\ prev' = [Opcode |-> "emit"]
    /\ UNCHANGED <<callstack, LambdaFactories, heap, StructResolve, Tokens, vmToAdd,
                   schemes, FunctionTable, FunctionTreeMap>>

DivideIntegers ==
    \E dest \in 4..10, x \in 4..9, y \in 4..9 :
        Emitted(btDivideIntegers([Mem |-> Mem.main, Code |-> Code.main], dest, <<x, 0, y>>))

ModuloIntegers ==
    \E dest \in 4..10, x \in 4..9, y \in 4..9 :
        Emitted(btModuloIntegers([Mem |-> Mem.main, Code |-> Code.main], dest, <<x, 0, y>>))

NextDivide ==
    DivideIntegers \/ ModuloIntegers \/ Equi \/ Qtru \/ Asgm \/ Jmp \/ Divi \/ Modi \/ Halt

SpecDivide == InitDivide /\ [][NextDivide]_vars

(* C29: the run of the sequence emitted for dst, a and b never executes    *)
(* Divi or Modi on a zero divisor and never panics; it leaves at the       *)
(* instruction after Divi or Modi, with mem[dst] the ERROR built/div/int   *)
(* or built/mod when mem[b] is 0, and otherwise the INT quotient of mem[a] *)
(* by mem[b], truncated toward zero, or its remainder.                     *)
C29_DivisionGuard ==
    /\ (Ran("Divi") \/ Ran("Modi")) => prev.Mem.main[A(prev.Args, 2)].V # 0
    /\ \A i \in DOMAIN runs : runs[i].st # "panic"
    /\ Ran("Halt") =>
          LET op  == Code.main[Size(Code.main) - 2]
              dst == Mem.main[A(op.Args, 0)]
              x   == DivideMem[A(op.Args, 1)].V
              y   == DivideMem[A(op.Args, 2)].V
              q   == IF op.Opcode = "Divi" THEN dst.V ELSE (x - dst.V) \div y
              r   == x - q * y
          IN /\ prev.loc = Size(Code.main) - 1
             /\ IF y = 0
                THEN dst = ErrorValue(IF op.Opcode = "Divi" THEN "built/div/int"
                                      ELSE "built/mod")
                ELSE /\ dst.T = INT
                     /\ r = (IF op.Opcode = "Divi" THEN r ELSE dst.V)
                     /\ r * r < y * y
                     /\ r = 0 \/ (r < 0) = (x < 0)

(* A division by a register holding 0 has run to its end and left the      *)
(* error in dst without executing Divi.                                    *)
C29_Witness ==
    /\ Ran("Halt")
    /\ Code.main[Size(Code.main) - 2].Opcode = "Divi"
    /\ DivideMem[A(Code.main[Size(Code.main) - 2].Args, 2)].V = 0
    /\ Mem.main[A(Code.main[Size(Code.main) - 2].Args, 0)] = ErrorValue("built/div/int")

----------------------------------------------------------------------------
(* BlankVm and the register files of the VMs it returns.  Here Mem is the  *)
(* sequence of the VMs made so far, each with the slice header of its      *)
(* vm.Mem, and heap[1] is the backing array of the package-level slice of  *)
(* the four constants, which BlankVm hands to every VM as its Mem.         *)

MaxVms == 2

InitBlank ==
    /\ Mem = <<>>
    /\ heap = <<VmConstants>>
    /\ callstack = <<>> /\ Code = <<>> /\ LambdaFactories = <<>> /\ runs = <<>>
    /\ Tokens = <<>> /\ vmToAdd = <<>> /\ StructResolve = <<>> /\ schemes = <<>>
    /\ FunctionTable = <<>> /\ FunctionTreeMap = <<>>
    /\ prev = [Opcode |-> "init"]

(* The registers every VM shows.                                           *)
Registers == [i \in DOMAIN Mem |-> Elems(heap, Mem[i].Mem)]

BlankVm ==
    /\ Len(Mem) < MaxVms
    /\ Mem' = Append(Mem, [Mem |-> [ptr |-> 1, len |-> Len(VmConstants)],
                           Ub_enums |-> LB_ENUMS, StructResolve |-> <<>>])
    /\ prev' = [Opcode |-> "BlankVm", vm |-> Len(Mem) + 1]
    /\ UNCHANGED <<heap, callstack, Code, LambdaFactories, runs, StructResolve, Tokens,
                   vmToAdd, schemes, FunctionTable, FunctionTreeMap>>

(* vm.Mem[r] = TRUE, as an opcode with a destination register does it, on  *)
(* the first or the last register of the VM.                               *)
StoreRegister ==
    \E i \in DOMAIN Mem : \E r \in {0, Mem[i].Mem.len - 1} :
        /\ heap' = [heap EXCEPT ![Mem[i].Mem.ptr][r + 1] = TRUE_]
        /\ prev' = [Opcode |-> "store", vm |-> i, r |-> r, Registers |-> Registers]
        /\ UNCHANGED <<Mem, callstack, Code, LambdaFactories, runs, StructResolve, Tokens,
                       vmToAdd, schemes, FunctionTable, FunctionTreeMap>>

(* vm.Mem = append(vm.Mem, x): the compiler reserves a register.           *)
ReserveRegister ==
    \E i \in DOMAIN Mem : \E c \in Slack :
        /\ Mem[i].Mem.len = Len(VmConstants)
        /\ heap' = AppendSlice(heap, Mem[i].Mem, <<ONE>>, c).heap
        /\ Mem' = [Mem EXCEPT ![i].Mem = AppendSlice(heap, Mem[i].Mem, <<ONE>>, c).s]
        /\ prev' = [Opcode |-> "reserve", vm |-> i, Registers |-> Registers]
        /\ UNCHANGED <<callstack, Code, LambdaFactories, runs, StructResolve, Tokens,
                       vmToAdd, schemes, FunctionTable, FunctionTreeMap>>

SpecBlank == InitBlank /\ [][BlankVm \/ StoreRegister \/ ReserveRegister]_vars

(* C30: every VM BlankVm returns has registers 0..3 equal to FALSE, TRUE,  *)
(* UNSAT, ONE, Ub_enums equal to LB_ENUMS and an empty struct resolver,    *)
(* and no store of a VM to one of its registers shows in another VM.       *)
C30_BlankVmAsClaimed ==
    /\ Ran("BlankVm") =>
          /\ Registers[prev.vm] = <<FALSE_, TRUE_, U_OBJ, ONE>>
          /\ Mem[prev.vm].Ub_enums = LB_ENUMS
          /\ Mem[prev.vm].StructResolve = <<>>
    /\ Ran("store") =>
          \A j \in DOMAIN Mem : j # prev.vm => Registers[j] = prev.Registers[j]

----------------------------------------------------------------------------
(* IxZl with a label that is no field of the struct.                       *)

(* What the resolver answered to the last IxZl.                            *)
C32_Resolved ==
    Resolve(StructResolve, PMem[PArg(1)].T - Ub_enums, PMem[PArg(2)].V)

(* C32 (as claimed): IxZl dst, strct, label_reg where the label in         *)
(* label_reg is not a field of the struct's type (the resolver returns -1) *)
(* does not abort the VM: the run continues at the next instruction with a *)
(* value written to dst.                                                   *)
C32_IxZlAsClaimed ==
    (/\ Ran("IxZl")
     /\ PMem[PArg(1)].T >= Ub_enums
     /\ PMem[PArg(2)].T = LABEL
     /\ C32_Resolved.ok /\ C32_Resolved.ix = -1)
    => ~Panicked /\ Act.st = "run" /\ Act.loc = prev.loc + 1

----------------------------------------------------------------------------
(* Errors and enums: Ints, Flts, Mker, Adtk, Strx, Idxt.                   *)
(*                                                                         *)
(* An *object.Error is a pointer: the payload [ref |-> p] names the error  *)
(* object heap[p], a record of its ErrorId, Message, Token and Trace.      *)

(* A number beyond the integers of the checker is kept as its decimal      *)
(* numeral.                                                                *)
Numeral(digits) == [numeral |-> digits]

(* The constant 4294967295: an int when it is stored in a payload, a       *)
(* uint32 when it is compared with an external service number.             *)
DUMMY == Numeral(<<52, 50, 57, 52, 57, 54, 55, 50, 57, 53>>)

(* The type assertion of v.V to a pointer to an object.Error holds.       *)
HasErrorPayload(v) == v.T = ERROR /\ DOMAIN v.V = {"ref"}

(* v.V.(string) holds.                                                     *)
HasStringPayload(v) == v.T = STRING_

IsDigit(b) == 48 <= b /\ b <= 57

(* The number a string of digits denotes.                                  *)
RECURSIVE DigitsValue(_)
DigitsValue(d) ==
    IF d = <<>> THEN 0
    ELSE 10 * DigitsValue(SubSeq(d, 1, Len(d) - 1)) + (d[Len(d)] - 48)

(* strconv.Atoi(s): an optional sign, then one digit or more.              *)
Atoi(s) ==
    LET signed == Len(s) > 0 /\ s[1] \in {43, 45}
        digits == IF signed THEN Tail(s) ELSE s
        ok     == Len(digits) > 0 /\ \A i \in DOMAIN digits : IsDigit(digits[i])
    IN [ok |-> ok,
        i  |-> IF ~ok THEN 0
               ELSE IF signed /\ s[1] = 45 THEN 0 - DigitsValue(digits)
               ELSE DigitsValue(digits)]

(* strconv.ParseFloat(s, 64) on decimal numerals without an exponent (the  *)
(* strings of these programs have no other form): an optional sign, digits *)
(* with at most one point and one digit at least.  The float is kept as    *)
(* the numeral read.                                                       *)
ParseFloat(s) ==
    LET signed == Len(s) > 0 /\ s[1] \in {43, 45}
        body   == IF signed THEN Tail(s) ELSE s
        points == {i \in DOMAIN body : body[i] = 46}
        ok     == /\ Cardinality(points) <= 1
                  /\ \A i \in DOMAIN body \ points : IsDigit(body[i])
                  /\ DOMAIN body \ points # {}
    IN [ok |-> ok, f |-> [float |-> s]]

(* strconv.Itoa(n).                                                        *)
RECURSIVE Itoa(_)
Itoa(n) ==
    IF n < 0 THEN <<45>> \o Itoa(0 - n)
    ELSE IF n < 10 THEN <<48 + n>>
    ELSE Itoa(n \div 10) \o <<48 + (n % 10)>>

(* What Ints stores for the string s.                                      *)
IntsVal(s) ==
    IF Atoi(s).ok THEN Val(INT, Atoi(s).i) ELSE Val(ERROR, DUMMY)

Ints ==
    /\ Fetch("Ints")
    /\ IF HasStringPayload(Mem[vm][A(args, 1)])
       THEN Store(A(args, 0), IntsVal(Mem[vm][A(args, 1)].V)) /\ FallThrough
       ELSE Panic /\ UNCHANGED Mem
    /\ Executed("Ints")
    /\ UNCHANGED <<callstack, heap>> /\ Fixed

Flts ==
    /\ Fetch("Flts")
    /\ IF HasStringPayload(Mem[vm][A(args, 1)])
       THEN /\ Store(A(args, 0),
                     IF ParseFloat(Mem[vm][A(args, 1)].V).ok
                     THEN Val(FLOAT, ParseFloat(Mem[vm][A(args, 1)].V).f)
                     ELSE Val(ERROR, DUMMY))
            /\ FallThrough
       ELSE Panic /\ UNCHANGED Mem
    /\ Executed("Flts")
    /\ UNCHANGED <<callstack, heap>> /\ Fixed

(* Mker: a new error object, and the pointer to it in dst.                 *)
Mker ==
    /\ Fetch("Mker")
    /\ IF HasStringPayload(Mem[vm][A(args, 1)]) /\ A(args, 2) < Len(Tokens)
       THEN /\ heap' = Append(heap, [ErrorId |-> "eval/user",
                                     Message |-> Mem[vm][A(args, 1)].V,
                                     Token   |-> Tokens[A(args, 2) + 1],
                                     Trace   |-> <<>>])
            /\ Store(A(args, 0), Val(ERROR, [ref |-> Len(heap) + 1]))
            /\ FallThrough
       ELSE Panic /\ UNCHANGED <<Mem, heap>>
    /\ Executed("Mker")
    /\ UNCHANGED callstack /\ Fixed

(* ob.AddToTrace(tok): the token joins the trace of the object ob points   *)
(* to.                                                                     *)
AddToTrace(h, p, tok) == [h EXCEPT ![p].Trace = Append(@, tok)]

(* Adtk: the value, a pointer, is copied to dst; then the object that dst  *)
(* points to gets the token.                                               *)
Adtk ==
    /\ Fetch("Adtk")
    /\ Store(A(args, 0), Mem[vm][A(args, 1)])
    /\ IF HasErrorPayload(Mem[vm][A(args, 1)]) /\ A(args, 2) < Len(Tokens)
       THEN /\ heap' = AddToTrace(heap, Mem[vm][A(args, 1)].V.ref, Tokens[A(args, 2) + 1])
            /\ FallThrough
       ELSE Panic /\ UNCHANGED heap
    /\ Executed("Adtk")
    /\ UNCHANGED callstack /\ Fixed

(* vm.describe(v) for the values these programs stringify, with ok FALSE   *)
(* for a panic.  The text of an error is printed by a collaborator of the  *)
(* core from the message and the token; the message stands for it, and     *)
(* every error here has the id "eval/user".                                *)
describe(h, v) ==
    CASE v.T = BOOL    -> [ok |-> TRUE,
                           s |-> IF v.V THEN <<116, 114, 117, 101>>
                                 ELSE <<102, 97, 108, 115, 101>>]
      [] v.T = ERROR   -> IF HasErrorPayload(v)
                          THEN [ok |-> TRUE, s |-> h[v.V.ref].Message]
                          ELSE [ok |-> FALSE, s |-> <<>>]
      [] v.T = INT     -> [ok |-> TRUE, s |-> Itoa(v.V)]
      [] v.T = NULL    -> [ok |-> TRUE, s |-> <<78, 85, 76, 76>>]
      [] v.T = STRING_ -> [ok |-> TRUE, s |-> v.V]
      [] OTHER         -> [ok |-> FALSE, s |-> <<>>]

Strx ==
    /\ Fetch("Strx")
    /\ IF describe(heap, Mem[vm][A(args, 1)]).ok
       THEN /\ Store(A(args, 0), Val(STRING_, describe(heap, Mem[vm][A(args, 1)]).s))
            /\ FallThrough
       ELSE Panic /\ UNCHANGED Mem
    /\ Executed("Strx")
    /\ UNCHANGED <<callstack, heap>> /\ Fixed

(* v.V.(values.ValueType) holds.                                           *)
HasTypePayload(v) == v.T = TYPE

(* Idxt: the first failure stores mem[args[3]], the second mem[args[4]];   *)
(* args[4] of an instruction of four operands is out of range.             *)
Idxt ==
    LET typ == Mem[vm][A(args, 1)].V
        ix  == Mem[vm][A(args, 2)].V
    IN /\ Fetch("Idxt")
       /\ IF ~HasTypePayload(Mem[vm][A(args, 1)]) THEN Panic /\ UNCHANGED Mem
          ELSE IF typ < LB_ENUMS \/ Ub_enums <= typ
          THEN Store(A(args, 0), Mem[vm][A(args, 3)]) /\ FallThrough
          ELSE IF ~HasIntPayload(Mem[vm][A(args, 2)]) THEN Panic /\ UNCHANGED Mem
          ELSE IF 0 <= ix /\ ix < Len(Enums[typ - LB_ENUMS + 1])
          THEN Store(A(args, 0), Val(typ, ix)) /\ FallThrough
          ELSE IF Len(args) > 4
          THEN Store(A(args, 0), Mem[vm][A(args, 4)]) /\ FallThrough
          ELSE Panic /\ UNCHANGED Mem
       /\ Executed("Idxt")
       /\ UNCHANGED <<callstack, heap>> /\ Fixed

(* Registers: 0..3 the constants (3 is INT 1); 4..6 the strings "12",      *)
(* "1.5" and "x"; 7..9 INT -1, 0, 2; 10..12 the types 20 (the enum), INT   *)
(* and Ub_enums; 13, 14 two errors made earlier (heap[1] and heap[2]);     *)
(* 15 INT 7 and 16 NULL, the destinations.                                 *)
ErrorMem ==
    [r \in 0..16 |->
       CASE r \in 0..3 -> VmConstants[r + 1]
         [] r = 4  -> Val(STRING_, <<49, 50>>)
         [] r = 5  -> Val(STRING_, <<49, 46, 53>>)
         [] r = 6  -> Val(STRING_, <<120>>)
         [] r = 7  -> Val(INT, -1)
         [] r = 8  -> Val(INT, 0)
         [] r = 9  -> Val(INT, 2)
         [] r = 10 -> Val(TYPE, LB_ENUMS)
         [] r = 11 -> Val(TYPE, INT)
         [] r = 12 -> Val(TYPE, Ub_enums)
         [] r = 13 -> Val(ERROR, [ref |-> 1])
         [] r = 14 -> Val(ERROR, [ref |-> 2])
         [] r = 15 -> Val(INT, 7)
         [] OTHER  -> Val(NULL, Nil)]

ErrorTokens == <<"tok0", "tok1">>

ErrorHeap ==
    << [ErrorId |-> "eval/user", Message |-> <<120>>, Token |-> "tok0", Trace |-> <<>>],
       [ErrorId |-> "eval/user", Message |-> <<49, 50>>, Token |-> "tok1",
        Trace |-> <<"tok0">>] >>

ErrorInstrs ==
    {Op("Ints", <<15, s>>) : s \in 4..6}
    \cup {Op("Flts", <<16, s>>) : s \in 4..6}
    \cup {Op("Mker", <<15, 6, t>>) : t \in 0..1}
    \cup {Op("Adtk", <<16, s, t>>) : s \in {13, 15}, t \in 0..1}
    \cup {Op("Adtk", <<15, 16, 0>>)}
    \cup {Op("Strx", <<16, s>>) : s \in {0, 4, 8, 13, 15}}
    \cup {Op("Idxt", <<16, t, ix, 13>>) : t \in 10..12, ix \in {3, 7, 8, 9}}
    \cup {Op("Idxt", <<16, t, ix, 13, 14>>) : t \in 10..12, ix \in {3, 7, 8, 9}}
    \cup {Op("Halt", <<>>)}

InitError ==
    /\ \E a \in ErrorInstrs, b \in ErrorInstrs :
          Code = [main   |-> [l \in 0..2 |-> CASE l = 0 -> a [] l = 1 -> b
                                                  [] OTHER -> Op("Halt", <<>>)],
                  lambda |-> LambdaCode(Op("Ret", <<>>))]
    /\ Mem = [main |-> ErrorMem, lambda |-> LambdaMem]
    /\ callstack = [main |-> <<>>, lambda |-> <<>>]
    /\ LambdaFactories = <<>>
    /\ heap = ErrorHeap
    /\ StructResolve = <<>>
    /\ runs = <<Run("main", Entry, NoLambda)>>
    /\ Tokens = ErrorTokens /\ vmToAdd = <<>> /\ schemes = <<>>
    /\ FunctionTable = <<>> /\ FunctionTreeMap = <<>>
    /\ prev = [Opcode |-> "Run", vm |-> "main", loc |-> Entry, Args |-> <<>>,
               Mem |-> Mem, callstack |-> callstack, heap |-> heap, depth |-> 0]

NextError ==
    \/ Halt
    \/ Ints \/ Flts
    \/ Mker \/ Adtk \/ Strx
    \/ Idxt

SpecError == InitError /\ [][NextError]_vars

(* C31 (as claimed): every ERROR-tagged register holds a structured error  *)
(* record, after Mker, Adtk and a failed Flts or Ints as well, so that     *)
(* Adtk and Strx on an ERROR register are defined.                         *)
C31_ErrorsAsClaimed ==
    /\ \A r \in DOMAIN CMem : CMem[r].T = ERROR => HasErrorPayload(CMem[r])
    /\ (prev.Opcode \in {"Adtk", "Strx"} /\ PMem[PArg(1)].T = ERROR) => ~Panicked

(* The trace of the error the value v points to in the heap h.             *)
C33_Trace(h, v) == h[v.V.ref].Trace

(* C33 (as claimed): Adtk dst, src, tok with dst # src writes to dst a     *)
(* copy of the error of src with tokens[tok] appended to its trace, and    *)
(* leaves the error in src, and in every other register, as it was: the    *)
(* trace of src is unchanged and the trace of dst is one token longer.     *)
C33_AdtkAsClaimed ==
    (Ran("Adtk") /\ PArg(0) # PArg(1) /\ HasErrorPayload(PMem[PArg(1)]))
    => /\ ~Panicked
       /\ HasErrorPayload(CMem[PArg(0)])
       /\ C33_Trace(heap, CMem[PArg(0)])
             = Append(C33_Trace(prev.heap, PMem[PArg(1)]), Tokens[PArg(2) + 1])
       /\ \A r \in DOMAIN CMem \ {PArg(0)} :
             HasErrorPayload(PMem[r])
             => /\ CMem[r] = PMem[r]
                /\ C33_Trace(heap, CMem[r]) = C33_Trace(prev.heap, PMem[r])

(* C34 (as claimed): Idxt dst, typ, ix, fail with an enum type t in        *)
(* mem[typ] (LB_ENUMS <= t < Ub_enums) and 0 <= ix < the number of         *)
(* elements of that enum stores the enum value (t, ix) in dst; when the    *)
(* type is no enum type, and when the ordinal is out of range, dst         *)
(* receives the value of the one failure register fail, and the VM does    *)
(* not abort.                                                              *)
C34_IdxtAsClaimed ==
    (Ran("Idxt") /\ PMem[PArg(1)].T = TYPE /\ PMem[PArg(2)].T = INT)
    => /\ ~Panicked
       /\ CMem[PArg(0)] =
             IF /\ LB_ENUMS <= PMem[PArg(1)].V /\ PMem[PArg(1)].V < Ub_enums
                /\ 0 <= PMem[PArg(2)].V
                /\ PMem[PArg(2)].V < Len(Enums[PMem[PArg(1)].V - LB_ENUMS + 1])
             THEN Val(PMem[PArg(1)].V, PMem[PArg(2)].V)
             ELSE PMem[PArg(3)]

----------------------------------------------------------------------------
(* The shape of the dispatch trees.                                        *)

(* The tables of up to three overloads without a tuple parameter, no       *)
(* overload more specific than an earlier one.                             *)
PlainParams == {[VarName |-> "x", VarType |-> t] : t \in {"int", "string", "single"}}

PlainTables ==
    {v \in Seqs(Seqs(PlainParams, MaxSigLen), 3) :
         Len(v) > 0 /\ \A i \in DOMAIN v : \A j \in DOMAIN v :
                           i < j => ~Specific(v[j], v[i])}

InitOverloads ==
    /\ Mem = <<>> /\ callstack = <<>> /\ Code = <<>>
    /\ LambdaFactories = <<>> /\ heap = <<>> /\ runs = <<>>
    /\ Tokens = <<>> /\ vmToAdd = <<>> /\ StructResolve = <<>> /\ schemes = <<>>
    /\ FunctionTable \in PlainTables
    /\ FunctionTreeMap = <<>>
    /\ prev = [Opcode |-> "makeFunctionTable"]

SpecOverloads == InitOverloads /\ [][MakeFunctionTrees]_vars

(* C35 (as claimed): the dispatch tree never loses an overload.  For       *)
(* overloads with pairwise distinct signatures and no tuple parameter,     *)
(* following from the root the labels of an overload's own parameter types *)
(* and then the label "" reaches a node that carries that overload: a      *)
(* later overload neither removes nor replaces the subtree of an earlier   *)
(* one.                                                                    *)
C35_NoOverloadLostAsClaimed ==
    Ran("makeFunctionTrees") =>
        \A n \in DOMAIN FunctionTable :
            C28_Follow(FunctionTreeMap,
                       C28_Labels(FunctionTable[n], 1, Len(FunctionTable[n])) \o <<"">>).Fn = n

(* The same for the tables of two overloads at most.                       *)
C35_TwoOverloads ==
    (Ran("makeFunctionTrees") /\ Len(FunctionTable) <= 2) =>
        \A n \in DOMAIN FunctionTable :
            C28_Follow(FunctionTreeMap,
                       C28_Labels(FunctionTable[n], 1, Len(FunctionTable[n])) \o <<"">>).Fn = n

(* Every branch labelled "" under the node leads to a leaf, and every      *)
(* branch with another label to a node without a function.                 *)
RECURSIVE C36_WellFormed(_)
C36_WellFormed(node) ==
    \A i \in DOMAIN node.Branch :
        LET b == node.Branch[i]
        IN /\ IF b.TypeName = ""
              THEN b.Node.Fn # 0 /\ b.Node.Branch = <<>>
              ELSE b.Node.Fn = 0
           /\ C36_WellFormed(b.Node)

(* C36: in every dispatch tree built, with tuple parameters or without,    *)
(* each branch labelled "" leads to a leaf (a node with a function and no  *)
(* branch), and each node reached through a non-empty label has no         *)
(* function.                                                               *)
C36_LeavesAsClaimed ==
    Ran("makeFunctionTrees") => C36_WellFormed(FunctionTreeMap)

(* The same for the tables without a tuple parameter.                      *)
C36_WithoutTuples ==
    (/\ Ran("makeFunctionTrees")
     /\ \A n \in DOMAIN FunctionTable :
            \A i \in DOMAIN FunctionTable[n] : FunctionTable[n][i].VarType # "tuple")
    => C36_WellFormed(FunctionTreeMap)

----------------------------------------------------------------------------
(* Tuples that share a backing array: programs of three instructions (a    *)
(* CalT that makes a tuple in m12, then tuple constructors that read it),  *)
(* then Halt; 4: Ret is the code CalT calls.                               *)
AliasInstrs ==
    {Op("CalT", <<4, 12, 9>> \o a) : a \in {<<3>>, <<3, 7>>}}
    \cup {Op(oc, <<d, 12, y>>) : oc \in {"CcT1", "CcTT", "Ccxx"},
                                 d \in {13, 14}, y \in {3, 5}}
    \cup {Op("CcT1", <<13, 4, 3>>), Op("Halt", <<>>)}

InitAlias ==
    /\ \E a \in AliasInstrs, b \in AliasInstrs, c \in AliasInstrs :
          Code = [main   |-> [l \in 0..4 |-> CASE l = 0 -> a [] l = 1 -> b [] l = 2 -> c
                                                  [] l = 3 -> Op("Halt", <<>>)
                                                  [] OTHER -> Op("Ret", <<>>)],
                  lambda |-> LambdaCode(Op("Ret", <<>>))]
    /\ Mem = [main |-> MainMem, lambda |-> LambdaMem]
    /\ callstack = [main |-> <<>>, lambda |-> <<>>]
    /\ LambdaFactories = <<>>
    /\ heap = MainHeap
    /\ StructResolve = <<>>
    /\ runs = <<Run("main", Entry, NoLambda)>>
    /\ Tokens = <<>> /\ vmToAdd = <<>> /\ schemes = <<>>
    /\ FunctionTable = <<>> /\ FunctionTreeMap = <<>>
    /\ prev = [Opcode |-> "Run", vm |-> "main", loc |-> Entry, Args |-> <<>>,
               Mem |-> Mem, callstack |-> callstack, heap |-> heap, depth |-> 0]

NextAlias ==
    \/ Halt \/ Ret
    \/ CalT
    \/ CcT1 \/ CcTT \/ Ccxx

SpecAlias == InitAlias /\ [][NextAlias]_vars

(* C37 (as claimed): a pure register operation changes no register other  *)
(* than dst.  After CcT1 dst, a, b (and CcTT, and Ccxx with a tuple in a)  *)
(* the tuple in every other register is what it was, the tuples written    *)
(* earlier by another CcT1 from the same source a and the tuples made by   *)
(* CalT included.                                                          *)
C37_OthersAsClaimed ==
    (/\ prev.Opcode \in {"CcT1", "CcTT", "Ccxx"}
     /\ PMem[PArg(1)].T = TUPLE
     /\ ~Panicked)
    => \A r \in DOMAIN CMem \ {PArg(0)} :
           /\ CMem[r] = PMem[r]
           /\ HasSlicePayload(PMem[r])
              => Elems(heap, CMem[r].V) = Elems(prev.heap, PMem[r].V)

----------------------------------------------------------------------------
(* SHOW_RUN: the loop describes each instruction before executing it.      *)

(* op.ppLoc(i): " @" and the operand.                                      *)
ppLoc(op, i) == <<32, 64>> \o Itoa(A(op.Args, i))

(* describe(op), the mnemonic and the operands: "halt", "jmp @n", and      *)
(* "indescribable thing" for an opcode without a case.                     *)
describeOp(op) ==
    CASE op.Opcode = "Halt" -> <<104, 97, 108, 116>>
      [] op.Opcode = "Jmp"  -> <<106, 109, 112>> \o ppLoc(op, 0)
      [] OTHER -> <<105, 110, 100, 101, 115, 99, 114, 105, 98, 97, 98, 108, 101,
                    32, 116, 104, 105, 110, 103>>

(* "@" + strconv.Itoa(int(loc)) + " : ".                                   *)
DescribePrefix(l) == <<64>> \o Itoa(l) \o <<32, 58, 32>>

(* vm.DescribeCode(loc): strings.Repeat panics on a negative count, and    *)
(* vm.Code[loc] beyond the code.                                           *)
DescribeCode(code, l) ==
    LET prefix == DescribePrefix(l)
        count  == 6 - Len(prefix)
    IN IF count < 0 \/ l \notin DOMAIN code THEN [ok |-> FALSE, s |-> <<>>]
       ELSE [ok |-> TRUE,
             s  |-> [i \in 1..count |-> 32] \o prefix \o describeOp(code[l])]

(* The last offset of the long program.                                    *)
MaxLoc == 101

(* One turn of the loop with SHOW_RUN: the line is printed, then the       *)
(* instruction is executed (a Jmp goes to l, a Halt breaks the loop).      *)
Shown(oc, effect) ==
    /\ Fetch(oc)
    /\ IF DescribeCode(Code[vm], loc).ok THEN effect ELSE Panic
    /\ prev' = [Opcode |-> oc, vm |-> vm, loc |-> loc, Args |-> args, Mem |-> Mem,
                callstack |-> callstack, heap |-> heap, depth |-> Len(runs),
                line |-> DescribeCode(Code[vm], loc)]
    /\ UNCHANGED <<Mem, callstack, heap>> /\ Fixed

ShownJmp == Shown("Jmp", GoTo(A(args, 0)))

ShownHalt == Shown("Halt", BreakLoop)

(* Run(entry) on a program of MaxLoc + 1 instructions: each jumps to the   *)
(* next, the last halts.                                                   *)
InitShown ==
    /\ Code = [main   |-> [l \in 0..MaxLoc |-> IF l < MaxLoc THEN Op("Jmp", <<l + 1>>)
                                               ELSE Op("Halt", <<>>)],
               lambda |-> LambdaCode(Op("Ret", <<>>))]
    /\ Mem = [main |-> MainMem, lambda |-> LambdaMem]
    /\ callstack = [main |-> <<>>, lambda |-> <<>>]
    /\ LambdaFactories = <<>>
    /\ heap = <<>>
    /\ StructResolve = <<>>
    /\ \E entry \in 0..MaxLoc : runs = <<Run("main", entry, NoLambda)>>
    /\ Tokens = <<>> /\ vmToAdd = <<>> /\ schemes = <<>>
    /\ FunctionTable = <<>> /\ FunctionTreeMap = <<>>
    /\ prev = [Opcode |-> "Run", vm |-> "main", loc |-> runs[1].loc, Args |-> <<>>,
               Mem |-> Mem, callstack |-> callstack, heap |-> heap, depth |-> 0]

NextShown == ShownJmp \/ ShownHalt

SpecShown == InitShown /\ [][NextShown]_vars

(* C38 (as claimed): for every loc of the code DescribeCode(loc) returns a *)
(* line "@<loc> : <mnemonic>", after some spaces, and never fails, so that *)
(* Run with SHOW_RUN executes the instruction at every code offset.        *)
C38_DescribeCodeAsClaimed ==
    "line" \in DOMAIN prev
    => /\ ~Panicked
       /\ prev.line.ok
       /\ \E n \in 0..6 :
             prev.line.s = [i \in 1..n |-> 32] \o <<64>> \o Itoa(prev.loc) \o <<32, 58, 32>>
                           \o describeOp(Code[prev.vm][prev.loc])

(* The same for the offsets below 100.                                     *)
C38_BelowHundred ==
    ("line" \in DOMAIN prev /\ prev.loc < 100)
    => /\ ~Panicked
       /\ prev.line.ok
       /\ \E n \in 0..6 :
             prev.line.s = [i \in 1..n |-> 32] \o <<64>> \o Itoa(prev.loc) \o <<32, 58, 32>>
                           \o describeOp(Code[prev.vm][prev.loc])

----------------------------------------------------------------------------
(* A lambda invoked from a subroutine.  The main VM runs                   *)
(*     0: Mkfn m12, f     1: Jsr 3 or Jmp 3     2: Halt                    *)
(*     3: Dofn m6, m12, x     4: Ret                                       *)
(*     5: <s>     6: Ret     (the body of the lambda of factory 0)         *)
(* Factory 0 makes a lambda of the main VM itself (parameter m13, result   *)
(* m14, body at 5), factory 1 one of the lambda VM.                        *)
OwnFactory ==
    [Model |-> Lambda("main", 13, 14, 14, 5), ExtMem |-> <<>>, Size |-> 15]

NestedFactories == <<OwnFactory, TheFactory>>

NestedCode(f, j, x, s) ==
    [l \in 0..6 |->
       CASE l = 0 -> Op("Mkfn", <<12, f>>)
         [] l = 1 -> Op(j, <<3>>)
         [] l = 2 -> Op("Halt", <<>>)
         [] l = 3 -> Op("Dofn", <<6, 12, x>>)
         [] l = 5 -> s
         [] OTHER -> Op("Ret", <<>>)]

InitNested ==
    /\ \E f \in {0, 1}, j \in {"Jsr", "Jmp"}, x \in {0, 1, 3, 7},
          s \in {Op("Asgm", <<14, 13>>), Op("Addi", <<14, 13, 13>>)},
          body \in LambdaBodies :
          Code = [main |-> NestedCode(f, j, x, s), lambda |-> LambdaCode(body)]
    /\ Mem = [main |-> MainMem, lambda |-> LambdaMem]
    /\ callstack = [main |-> <<>>, lambda |-> <<>>]
    /\ LambdaFactories = [i \in {0, 1} |-> NestedFactories[i + 1]]
    /\ heap = MainHeap
    /\ StructResolve = <<>>
    /\ runs = <<Run("main", Entry, NoLambda)>>
    /\ Tokens = <<>> /\ vmToAdd = <<>> /\ schemes = <<>>
    /\ FunctionTable = <<>> /\ FunctionTreeMap = <<>>
    /\ prev = [Opcode |-> "Run", vm |-> "main", loc |-> Entry, Args |-> <<>>,
               Mem |-> Mem, callstack |-> callstack, heap |-> heap, depth |-> 0]

NextNested ==
    \/ Halt \/ Jmp \/ Jsr \/ Ret
    \/ Asgm \/ Addi
    \/ Mkfn \/ Dofn \/ DofnReturn

SpecNested == InitNested /\ [][NextNested]_vars

(* The call stacks when the Dofn at 3 is executed: the subroutine call at  *)
(* 1, if it is one, is in progress on the main VM.                         *)
C39_StacksAtDofn ==
    [main   |-> IF Code["main"][1].Opcode = "Jsr" THEN <<1>> ELSE <<>>,
     lambda |-> <<>>]

(* C39 (as claimed): when Dofn runs a lambda whose VM has a non-empty call *)
(* stack (here the lambda's VM is the invoking VM, inside a subroutine),   *)
(* the Ret that ends the lambda body ends the nested run, control returns  *)
(* to the instruction after the Dofn, and the call stack of every VM is    *)
(* what it was immediately before the Dofn.                                *)
C39_NestedAsClaimed ==
    /\ (/\ Ran("Ret") /\ prev.depth > 1
        /\ prev.loc = runs[prev.depth].lhs.LocToCall + 1
        /\ prev.callstack[prev.vm] # <<>>)
       => Act.st = "ret" /\ callstack = prev.callstack
    /\ (Ran("DofnReturn") /\ C39_StacksAtDofn[runs[Len(runs)].vm] # <<>>)
       => /\ callstack = C39_StacksAtDofn
          /\ runs[Len(runs)].loc = prev.loc + 1

(* The same for a lambda whose VM has an empty call stack at the Dofn.     *)
C39_EmptyStack ==
    /\ (/\ Ran("Ret") /\ prev.depth > 1
        /\ prev.loc = runs[prev.depth].lhs.LocToCall + 1
        /\ prev.callstack[prev.vm] = <<>>)
       => Act.st = "ret" /\ callstack = prev.callstack
    /\ (/\ Ran("DofnReturn")
        /\ C39_StacksAtDofn[Mem["main"][12].V.Mc] = <<>>)
       => /\ callstack = C39_StacksAtDofn
          /\ runs[Len(runs)].loc = prev.loc + 1

----------------------------------------------------------------------------
(* The serialized API of a service and the declarations made from it.      *)
(* Text is a sequence of bytes.  The service here has one enum type and    *)
(* the overloads of one function name, no struct and no abstract type of   *)
(* its own; nothing is a mandatory import.                                 *)

(* The texts of the format.                                                *)
Bar == <<32, 124, 32>>
NewLine == <<10>>
Space == <<32>>
CommaSpace == <<44, 32>>
LeftParen == <<40>>
RightParen == <<41>>
Quote == <<34>>
KeyEnum == <<69, 78, 85, 77>>
KeyCommand == <<67, 79, 77, 77, 65, 78, 68>>
KeyFunction == <<70, 85, 78, 67, 84, 73, 79, 78>>
KeyCmd == <<67, 77, 68>>
KeyDef == <<68, 69, 70>>
Bling == <<98, 108, 105, 110, 103>>
NewtypeHeader == <<110, 101, 119, 116, 121, 112, 101, 10, 10>>
CmdHeader == <<10, 99, 109, 100, 10, 10>>
DefHeader == <<10, 100, 101, 102, 10, 10>>
EnumIs == <<32, 61, 32, 101, 110, 117, 109, 32>>
Xcall == <<32, 58, 32, 120, 99, 97, 108, 108, 32>>

(* strings.Split(s, sep) for a separator that is not empty.                *)
RECURSIVE Split(_, _)
Split(s, sep) ==
    LET at(i) == i + Len(sep) - 1 <= Len(s) /\ SubSeq(s, i, i + Len(sep) - 1) = sep
    IN IF \E i \in 1..Len(s) : at(i)
       THEN LET i == CHOOSE k \in 1..Len(s) : at(k) /\ \A j \in 1..(k - 1) : ~at(j)
            IN <<SubSeq(s, 1, i - 1)>> \o Split(SubSeq(s, i + Len(sep), Len(s)), sep)
       ELSE <<s>>

(* strings.Join(elems, sep).                                               *)
RECURSIVE Join(_, _)
Join(elems, sep) ==
    IF elems = <<>> THEN <<>>
    ELSE IF Len(elems) = 1 THEN elems[1]
    ELSE elems[1] \o sep \o Join(Tail(elems), sep)

(* strings.TrimRight(s, "\n").                                             *)
RECURSIVE TrimRight(_)
TrimRight(s) ==
    IF s # <<>> /\ s[Len(s)] = 10 THEN TrimRight(SubSeq(s, 1, Len(s) - 1)) ELSE s

(* The texts written one after another.                                    *)
RECURSIVE Written(_)
Written(texts) == IF texts = <<>> THEN <<>> ELSE Head(texts) \o Written(Tail(texts))

(* service.SerializeApi(): a line for each public enum, then, for the      *)
(* function table, the commands and after them the functions.              *)
SerializeApi(mc, fns) ==
    Written([k \in 1..Len(mc.Enums) |->
        IF mc.typeAccess[LB_ENUMS + k - 1] = "PUBLIC"
        THEN KeyEnum \o Bar \o mc.concreteTypeNames[LB_ENUMS + k - 1]
             \o Written([e \in 1..Len(mc.Enums[k]) |-> Bar \o mc.Enums[k][e]])
             \o NewLine
        ELSE <<>>])
    \o Written([p \in 1..(2 * Len(fns)) |->
        LET defOrCmd == (p - 1) \div Len(fns)
            fn       == fns[((p - 1) % Len(fns)) + 1]
        IN IF fn.Private \/ fn.Cmd # (defOrCmd = 0) THEN <<>>
           ELSE (IF fn.Cmd THEN KeyCommand \o Bar ELSE KeyFunction \o Bar)
                \o fn.Name \o Bar \o Itoa(fn.Position)
                \o Written([i \in 1..Len(fn.Sig) |->
                       Bar \o fn.Sig[i].VarName \o Space \o fn.Sig[i].VarType])
                \o Bar \o fn.Types \o NewLine])

(* The positions of a function, as the numbers the serialization writes.   *)
PREFIX == 0
SUFFIX == 2
UNFIX == 3

(* The parameters of a declaration, one at a time: the text so far and     *)
(* lastWasBling.  ok is FALSE when a parameter has no type (bits[1]).      *)
RECURSIVE DeclareParams(_, _, _, _)
DeclareParams(params, i, buf, lastWasBling) ==
    IF i > Len(params) THEN [ok |-> TRUE, s |-> buf]
    ELSE LET bits == Split(params[i], Space)
         IN IF Len(bits) < 2 THEN [ok |-> FALSE, s |-> buf]
            ELSE IF bits[2] = Bling
            THEN DeclareParams(params, i + 1,
                     buf \o (IF lastWasBling THEN <<>> ELSE RightParen) \o Space \o bits[1], TRUE)
            ELSE DeclareParams(params, i + 1,
                     buf \o (IF lastWasBling THEN Space \o LeftParen
                             ELSE IF i > 1 THEN CommaSpace ELSE <<>>)
                         \o bits[1] \o Space \o bits[2], FALSE)

(* makeCommandOrFunctionDeclarationFromParts(parts, xserve): parts are the *)
(* name, the position, the parameters and the typescheme.  strconv.Atoi    *)
(* gives 0 for a position that is no numeral.                              *)
makeCommandOrFunctionDeclarationFromParts(parts, xserve) ==
    IF Len(parts) < 2 THEN [ok |-> FALSE, s |-> <<>>]
    ELSE LET functionName == parts[1]
             position == Atoi(parts[2]).i
             params   == SubSeq(parts, 3, Len(parts) - 1)
             declared == DeclareParams(params, 1,
                             (IF position = PREFIX THEN functionName \o Space ELSE <<>>) \o LeftParen,
                             FALSE)
         IN IF position = UNFIX THEN [ok |-> TRUE, s |-> functionName]
            ELSE IF ~declared.ok THEN declared
            ELSE [ok |-> TRUE,
                  s  |-> declared.s \o RightParen
                         \o (IF position = SUFFIX THEN Space \o functionName ELSE <<>>)
                         \o (IF xserve # DUMMY
                             THEN Xcall \o xserve.numeral \o CommaSpace \o Quote
                                  \o functionName \o Quote \o CommaSpace \o Itoa(position)
                                  \o CommaSpace \o Quote \o parts[Len(parts)] \o Quote
                             ELSE <<>>)
                         \o NewLine]

(* The loop of SerializedAPIToDeclarations over the lines: buf is the text *)
(* written so far, hasHappened the set of the keys that are true.          *)
RECURSIVE DeclareLines(_, _, _, _, _)
DeclareLines(lines, lineNo, buf, hasHappened, xserve) ==
    IF lineNo > Len(lines) THEN [ok |-> TRUE, s |-> buf]
    ELSE
      LET parts == Split(lines[lineNo], Bar)
          next(text) == DeclareLines(lines, lineNo + 1, buf \o text,
                                     hasHappened \cup {parts[1]}, xserve)
          decl == makeCommandOrFunctionDeclarationFromParts(Tail(parts), xserve)
      IN CASE parts[1] = KeyEnum ->
                IF Len(parts) < 3 THEN [ok |-> FALSE, s |-> buf]
                ELSE next((IF KeyEnum \notin hasHappened THEN NewtypeHeader ELSE <<>>)
                          \o parts[2] \o EnumIs
                          \o Join(Split(parts[3], Space), CommaSpace) \o NewLine)
           [] parts[1] = KeyCommand ->
                IF ~decl.ok THEN [ok |-> FALSE, s |-> buf]
                ELSE next((IF KeyCmd \notin hasHappened THEN CmdHeader ELSE <<>>) \o decl.s)
           [] parts[1] = KeyFunction ->
                IF ~decl.ok THEN [ok |-> FALSE, s |-> buf]
                ELSE next((IF KeyDef \notin hasHappened THEN DefHeader ELSE <<>>) \o decl.s)
           [] parts[1] = <<>> -> next(<<>>)
           [] OTHER -> [ok |-> FALSE, s |-> buf]

(* SerializedAPIToDeclarations(serializedAPI, xserve), for an API without  *)
(* STRUCT and ABSTRACT lines.                                              *)
SerializedAPIToDeclarations(serializedAPI, xserve) ==
    DeclareLines(Split(TrimRight(serializedAPI), NewLine), 1, <<>>, {}, xserve)

(* The most elements of the enum and the most overloads of the function.   *)
MaxElements == 2
MaxFns == 2

(* The functions of the table: the name f, one parameter x int, the        *)
(* typescheme int.                                                         *)
ApiFunctions ==
    {[Name |-> <<102>>, Cmd |-> c, Private |-> p, Position |-> pos,
      Sig |-> <<[VarName |-> <<120>>, VarType |-> <<105, 110, 116>>]>>, Types |-> <<105, 110, 116>>] :
        c \in BOOLEAN, p \in BOOLEAN, pos \in {PREFIX, UNFIX}}

(* The service: its VM (the enum T of elements named a or b, public or     *)
(* private) in Mem and the function table of its parser.                   *)
InitApi ==
    /\ \E els \in Seqs({<<97>>, <<98>>}, MaxElements) \ {<<>>}, access \in {"PUBLIC", "PRIVATE"} :
          Mem = <<[Enums |-> <<els>>, Ub_enums |-> LB_ENUMS + 1,
                   concreteTypeNames |-> [t \in {LB_ENUMS} |-> <<84>>],
                   typeAccess |-> [t \in {LB_ENUMS} |-> access]]>>
    /\ FunctionTable \in Seqs(ApiFunctions, MaxFns)
    /\ callstack = <<>> /\ Code = <<>>
    /\ LambdaFactories = <<>> /\ heap = <<>> /\ runs = <<>>
    /\ Tokens = <<>> /\ vmToAdd = <<>> /\ StructResolve = <<>> /\ schemes = <<>>
    /\ FunctionTreeMap = <<>>
    /\ prev = [Opcode |-> "service"]

(* getAPI: the service serializes its API.                                 *)
GetAPI ==
    /\ Ran("service")
    /\ prev' = [Opcode |-> "SerializeApi", api |-> SerializeApi(Mem[1], FunctionTable)]
    /\ UNCHANGED <<Mem, callstack, Code, LambdaFactories, heap, runs, StructResolve,
                   Tokens, vmToAdd, schemes, FunctionTable, FunctionTreeMap>>

(* The declarations are made from the serialized API, for human readers    *)
(* (xserve DUMMY) or for the external service 0; xserve is kept as its     *)
(* numeral, which is what strconv.Itoa writes of it.                       *)
Declare ==
    /\ Ran("SerializeApi")
    /\ \E xserve \in {DUMMY, Numeral(<<48>>)} :
          prev' = [Opcode |-> "SerializedAPIToDeclarations", api |-> prev.api,
                   declarations |-> SerializedAPIToDeclarations(prev.api, xserve)]
    /\ UNCHANGED <<Mem, callstack, Code, LambdaFactories, heap, runs, StructResolve,
                   Tokens, vmToAdd, schemes, FunctionTable, FunctionTreeMap>>

NextApi == GetAPI \/ Declare

SpecApi == InitApi /\ [][NextApi]_vars

(* The number of places where pat occurs in s.                             *)
C40_Count(s, pat) ==
    Cardinality({i \in 1..Len(s) :
        i + Len(pat) - 1 <= Len(s) /\ SubSeq(s, i, i + Len(pat) - 1) = pat})

(* The declaration of the enum with all its elements in order.             *)
C40_EnumDeclaration ==
    Mem[1].concreteTypeNames[LB_ENUMS] \o EnumIs \o Join(Mem[1].Enums[1], CommaSpace) \o NewLine

(* C40 (as claimed): the declarations made from the serialized API do not  *)
(* fail; for a public enum of elements e1..en (n >= 1) the declaration     *)
(* made from its ENUM line lists all n elements in order; and each of the  *)
(* section headers newtype, cmd and def is written at most once, however   *)
(* many lines the serialized API has.                                      *)
C40_RoundTripAsClaimed ==
    Ran("SerializedAPIToDeclarations") =>
        /\ prev.declarations.ok
        /\ Mem[1].typeAccess[LB_ENUMS] = "PUBLIC"
           => C40_Count(prev.declarations.s, C40_EnumDeclaration) = 1
        /\ C40_Count(prev.declarations.s, NewtypeHeader) <= 1
        /\ C40_Count(prev.declarations.s, CmdHeader) <= 1
        /\ C40_Count(prev.declarations.s, DefHeader) <= 1

(* The same for an enum of one element and one command and one function at *)
(* most.                                                                   *)
C40_SingleLines ==
    (/\ Ran("SerializedAPIToDeclarations")
     /\ Len(Mem[1].Enums[1]) = 1
     /\ \A c \in BOOLEAN :
            Cardinality({i \in DOMAIN FunctionTable :
                ~FunctionTable[i].Private /\ FunctionTable[i].Cmd = c}) <= 1)
    => /\ prev.declarations.ok
       /\ Mem[1].typeAccess[LB_ENUMS] = "PUBLIC"
          => C40_Count(prev.declarations.s, C40_EnumDeclaration) = 1
       /\ C40_Count(prev.declarations.s, NewtypeHeader) <= 1
       /\ C40_Count(prev.declarations.s, CmdHeader) <= 1
       /\ C40_Count(prev.declarations.s, DefHeader) <= 1

====
